---- MODULE Spec2Model ----
(***************************************************************************)
(* Connection & credential lifecycle of the broker: the connection store,  *)
(* getConnectionCredentials and the OAuth2 refresh with its registry of    *)
(* running refreshes (ConnectionService in connection.service.ts).         *)
(*                                                                         *)
(* Node.js runs one callback at a time: every action below is the code     *)
(* that runs between two suspension points (await) of one call, or the     *)
(* moment an external collaborator (database, provider, activity log)      *)
(* acts.  A promise that settles hands its outcome to the calls awaiting   *)
(* it in the same turn (microtasks run before the next I/O callback).      *)
(***************************************************************************)
EXTENDS Integers, Sequences, FiniteSets, TLC

\* ---------------------------------------------------------------- bounds
MaxCalls == 2          \* calls of getConnectionCredentials in one run

\* ------------------------------------------------------- program constants
DefaultExpirationBuffer == 900   \* 15 * 60 seconds

Calls == 1..MaxCalls
ConnectionIds == {"c1"}
ProviderConfigKeys == {"slack", "salesforce", "figma"}
Environments == {1, 2}

NoToken == <<>>

\* A Date object, its JSON form (an ISO string) and no date at all.
Date(seconds) == <<"Date", seconds>>
IsoString(seconds) == <<"iso", seconds>>
NoDate == <<>>
NoActivityLog == 0                \* activityLogId = null

\* The key of a row of _nango_connections.
Triple(connection_id, provider_config_key, environment_id) ==
    <<connection_id, provider_config_key, environment_id>>

Triples == {Triple(c, k, e) : c \in ConnectionIds, k \in ProviderConfigKeys, e \in Environments}

\* ------------------------------------------------------------- credentials
\* An access token names the grant (the connection it was issued to) and a
\* serial number; the refresh token of a connection names its grant.
AccessToken(triple, n) == <<"access", triple, n>>
RefreshToken(triple) == <<"refresh", triple>>

OAuth2Credentials(access_token, refresh_token, expires_at) ==
    [type |-> "OAUTH2", access_token |-> access_token, refresh_token |-> refresh_token,
     expires_at |-> expires_at]

NoCredentials == [type |-> "NONE", access_token |-> NoToken, refresh_token |-> NoToken,
                  expires_at |-> NoDate]

\* The credentials that are never refreshed.
ApiKeyCredentials(apiKey) == [type |-> "API_KEY", apiKey |-> apiKey]
BasicApiCredentials(username, password) ==
    [type |-> "BASIC", username |-> username, password |-> password]
OAuth1Credentials(oauth_token, oauth_token_secret) ==
    [type |-> "OAUTH1", oauth_token |-> oauth_token, oauth_token_secret |-> oauth_token_secret]

\* Who a credential was issued to.
BelongsTo(credentials) == credentials.access_token[2]

\* --------------------------------------------------------------- providers
\* configService.getProviderConfig: the provider of a provider config key.
ProviderOf(providerConfigKey) == providerConfigKey

\* providerClient.shouldIntrospectToken(provider)
shouldIntrospectToken(provider) == provider = "salesforce"

\* providerClientManager.shouldUseProviderClient(provider)
shouldUseProviderClient(provider) == provider = "figma"

\* configService.getTemplate(provider): the provider's template; only some
\* templates define token_expiration_buffer, and one defines it as 0.
getTemplate(provider) ==
    CASE provider = "salesforce" -> [auth_mode |-> "OAUTH2", token_expiration_buffer |-> 300]
      [] provider = "hubspot" -> [auth_mode |-> "OAUTH2", token_expiration_buffer |-> 300]
      [] provider = "zoho" -> [auth_mode |-> "OAUTH2", token_expiration_buffer |-> 0]
      [] OTHER -> [auth_mode |-> "OAUTH2"]

\* isTokenExpired(expireDate, bufferInSeconds) of utils.ts, expireDate a Date
isTokenExpired(clock, expireDate, bufferInSeconds) == clock + bufferInSeconds >= expireDate[2]

\* parseTokenExpirationDate of utils.ts: a Date of a Date or of its JSON form
parseTokenExpirationDate(expirationDate) ==
    IF expirationDate[1] = "Date" THEN expirationDate ELSE Date(expirationDate[2])

\* JSON.stringify / JSON.parse of credentials: a Date becomes an ISO string.
ToJSON(credentials) ==
    IF /\ "expires_at" \in DOMAIN credentials
       /\ credentials.expires_at # NoDate
       /\ credentials.expires_at[1] = "Date"
    THEN [credentials EXCEPT !.expires_at = IsoString(credentials.expires_at[2])]
    ELSE credentials

\* ------------------------------------------------------------- encryption
NoKey == ""
NoIv == ""

\* connection_config = {}
NoConnectionConfig == <<>>

\* A Connection object: the columns of its row, the credentials in the clear.
Connection(connection_id, provider_config_key, environment_id, credentials, connection_config) ==
    [connection_id |-> connection_id, provider_config_key |-> provider_config_key,
     environment_id |-> environment_id, credentials |-> credentials,
     connection_config |-> connection_config]

\* encryptionManager.encryptConnection / encryptApiConnection: the row of a
\* connection; the credentials become a ciphertext with an iv and a tag, and
\* without a key the connection is stored as it is.
EncryptConnection(key, conn) ==
    [connection_id |-> conn.connection_id, provider_config_key |-> conn.provider_config_key,
     environment_id |-> conn.environment_id, connection_config |-> conn.connection_config,
     credentials |-> IF key = NoKey THEN ToJSON(conn.credentials)
                     ELSE <<"ciphertext", key, ToJSON(conn.credentials)>>,
     credentials_iv |-> IF key = NoKey THEN NoIv ELSE "iv",
     credentials_tag |-> IF key = NoKey THEN NoIv ELSE "tag"]

\* encryptionManager.decryptConnection
DecryptCredentials(key, row) ==
    IF row.credentials_iv = NoIv \/ row.credentials_tag = NoIv \/ key = NoKey
    THEN row.credentials
    ELSE row.credentials[3]

\* encryptionManager.decryptConnection: the Connection object of a row.
DecryptConnection(key, row) ==
    Connection(row.connection_id, row.provider_config_key, row.environment_id,
               DecryptCredentials(key, row), row.connection_config)

\* ------------------------------------------------------------ the database
\* The table _nango_connections is the sequence of its rows, in the order
\* they were inserted.
TripleOfRow(row) == Triple(row.connection_id, row.provider_config_key, row.environment_id)

\* select ... where {connection_id, provider_config_key, environment_id}
SelectRows(table, triple) == SelectSeq(table, LAMBDA row : TripleOfRow(row) = triple)

\* An update that adds the row when the triple has none.
UpdateRows_Upserting(table, triple, newRow) ==
    IF SelectRows(table, triple) = <<>>
    THEN Append(table, newRow)
    ELSE [i \in 1..Len(table) |-> IF TripleOfRow(table[i]) = triple THEN newRow ELSE table[i]]

\* ... where {...}.update(row): every row of the triple takes the new columns.
UpdateRows(table, triple, newRow) ==
    [i \in 1..Len(table) |-> IF TripleOfRow(table[i]) = triple THEN newRow ELSE table[i]]

\* ... where {...}.del()
DeleteRows(table, triple) == SelectSeq(table, LAMBDA row : TripleOfRow(row) # triple)

\* ------------------------------------------------------------------- state
VARIABLES
    nango_connections,            \* the table _nango_connections
    encryption_key,               \* the process-wide encryption key
    schedules,                    \* the connections that have scheduled sync work
    providerConfig,               \* the ProviderConfig each call has read
    runningCredentialsRefreshes,  \* ConnectionService.runningCredentialsRefreshes
    now,                          \* Date.now(), in seconds
    pc,                           \* where each call is suspended
    args,                         \* the arguments of each call
    connection,                   \* the Connection object each call holds
    awaiting,                     \* the promise a suspended call has returned
    result,                       \* what each call returned or threw
    promise,                      \* the promise of the refresh each call created
    executor,                     \* where that promise's executor is suspended
    caught                        \* the error e its catch block holds

vars == <<nango_connections, encryption_key, schedules, providerConfig,
          runningCredentialsRefreshes, now, pc,
          args, connection, awaiting, result, promise, executor, caught>>

NoError == <<>>
\* An error and the refresh (or call) that raised it.
Error(code, at) == <<code, at>>

NoPromise == [state |-> "none", credentials |-> NoCredentials, error |-> NoError]
Pending == [state |-> "pending", credentials |-> NoCredentials, error |-> NoError]
Resolved(credentials) == [state |-> "resolved", credentials |-> credentials, error |-> NoError]
Rejected(e) == [state |-> "rejected", credentials |-> NoCredentials, error |-> e]

NoResult == [kind |-> "none", credentials |-> NoCredentials, error |-> NoError]
Returned(credentials) == [kind |-> "returned", credentials |-> credentials, error |-> NoError]
Thrown(e) == [kind |-> "thrown", credentials |-> NoCredentials, error |-> e]

NoArgs == [environmentId |-> 0, connectionId |-> "", providerConfigKey |-> "",
           activityLogId |-> NoActivityLog, action |-> "token", instantRefresh |-> FALSE]

NoConnection == Connection("", "", 0, NoCredentials, NoConnectionConfig)

\* configService.getProviderConfig: no config read yet, null, or the config
\* of a provider.
Unread == <<"unread">>
NoProviderConfig == <<"null">>
ProviderConfig(provider) == <<"config", provider>>

\* The credentials a stored connection can start with: expired, inside the
\* default buffer only, without expiry, expired without refresh token.
ShapedCredentials(triple, shape, clock) ==
    CASE shape = "expired" ->
           OAuth2Credentials(AccessToken(triple, 0), RefreshToken(triple), Date(clock - 1))
      [] shape = "near" ->
           OAuth2Credentials(AccessToken(triple, 0), RefreshToken(triple), Date(clock + 600))
      [] shape = "no expiry" ->
           OAuth2Credentials(AccessToken(triple, 0), RefreshToken(triple), NoDate)
      [] OTHER ->
           OAuth2Credentials(AccessToken(triple, 0), NoToken, Date(clock - 1))

\* The elements of a set, one after the other.
RECURSIVE SetToSeq(_)
SetToSeq(set) ==
    IF set = {} THEN <<>>
    ELSE LET x == CHOOSE y \in set : TRUE IN <<x>> \o SetToSeq(set \ {x})

\* A table with one row per triple, each holding credentials of the shape.
StoredConnections(key, shape, clock) ==
    LET triples == SetToSeq(Triples)
    IN [i \in 1..Len(triples) |->
          EncryptConnection(key,
            Connection(triples[i][1], triples[i][2], triples[i][3],
                       ShapedCredentials(triples[i], shape, clock), NoConnectionConfig))]

Init ==
    /\ encryption_key = "key"
    /\ now = 1000
    /\ nango_connections = StoredConnections(encryption_key, "expired", now)
    /\ schedules = {}
    /\ providerConfig = [c \in Calls |-> Unread]
    /\ runningCredentialsRefreshes = <<>>
    /\ pc = [c \in Calls |-> "idle"]
    /\ args = [c \in Calls |-> NoArgs]
    /\ connection = [c \in Calls |-> NoConnection]
    /\ awaiting = [c \in Calls |-> 0]
    /\ result = [c \in Calls |-> NoResult]
    /\ promise = [c \in Calls |-> NoPromise]
    /\ executor = [c \in Calls |-> "none"]
    /\ caught = [c \in Calls |-> NoError]

\* ------------------------------------------------------- pieces of actions
\* activityLogId && logAction === 'token'
AuditContext(c) == args[c].activityLogId # NoActivityLog /\ args[c].action = "token"

\* RemoveRefreshes that looks at connectionId only.
RemoveRefreshes_ByConnectionId(refreshes, connectionId, providerConfigKey) ==
    SelectSeq(refreshes, LAMBDA value : value.connectionId # connectionId)

\* runningCredentialsRefreshes.filter(...): drops every entry of the key.
RemoveRefreshes(refreshes, connectionId, providerConfigKey) ==
    SelectSeq(refreshes,
              LAMBDA value : ~(value.providerConfigKey = providerConfigKey
                               /\ value.connectionId = connectionId))

\* The for loop over runningCredentialsRefreshes: the last entry of the key,
\* or 0 when there is none.
RunningRefresh(refreshes, connectionId, providerConfigKey) ==
    LET found == {i \in 1..Len(refreshes) :
                    /\ refreshes[i].connectionId = connectionId
                    /\ refreshes[i].providerConfigKey = providerConfigKey}
    IN IF found = {} THEN 0
       ELSE refreshes[CHOOSE i \in found : \A j \in found : j <= i].promise

\* The call throws e.
Throw(c, e) ==
    /\ pc' = [pc EXCEPT ![c] = "failed"]
    /\ result' = [result EXCEPT ![c] = Thrown(e)]
    /\ UNCHANGED <<connection, awaiting>>

\* "All good, no refresh needed": the credentials of the connection are
\* returned and getConnectionCredentials returns the connection.
ReturnCredentials(c) ==
    /\ pc' = [pc EXCEPT ![c] = "done"]
    /\ result' = [result EXCEPT ![c] = Returned(connection[c].credentials)]
    /\ UNCHANGED <<connection, awaiting>>

\* ReturnPromise with the running refresh not awaited: the call hands back
\* the credentials it holds instead of the promise.
ReturnPromise_NotAwaited(c, p) ==
    /\ awaiting' = [awaiting EXCEPT ![c] = p]
    /\ pc' = [pc EXCEPT ![c] = "done"]
    /\ result' = [result EXCEPT ![c] = Returned(connection[c].credentials)]
    /\ UNCHANGED connection

\* The call returns promise p: it ends with p's outcome at once when p is
\* settled, and waits for it otherwise.
ReturnPromise(c, p) ==
    /\ awaiting' = [awaiting EXCEPT ![c] = p]
    /\ IF promise[p].state = "pending"
       THEN /\ pc' = [pc EXCEPT ![c] = "awaitRefresh"]
            /\ UNCHANGED <<result, connection>>
       ELSE IF promise[p].state = "resolved"
       THEN /\ pc' = [pc EXCEPT ![c] = "done"]
            /\ result' = [result EXCEPT ![c] = Returned(promise[p].credentials)]
            /\ connection' = [connection EXCEPT ![c].credentials = promise[p].credentials]
       ELSE /\ pc' = [pc EXCEPT ![c] = "failed"]
            /\ result' = [result EXCEPT ![c] = Thrown(promise[p].error)]
            /\ UNCHANGED connection

\* resolve(newCredentials) / reject(e): promise p settles and every call
\* waiting for it ends with its outcome.
Settle(p, outcome) ==
    LET waits(c) == pc[c] = "awaitRefresh" /\ awaiting[c] = p
    IN /\ promise' = [promise EXCEPT ![p] = outcome]
       /\ executor' = [executor EXCEPT ![p] = "settled"]
       /\ pc' = [c \in Calls |->
                   IF waits(c)
                   THEN IF outcome.state = "resolved" THEN "done" ELSE "failed"
                   ELSE pc[c]]
       /\ result' = [c \in Calls |->
                       IF waits(c)
                       THEN IF outcome.state = "resolved"
                            THEN Returned(outcome.credentials)
                            ELSE Thrown(outcome.error)
                       ELSE result[c]]
       /\ connection' = [c \in Calls |->
                           IF waits(c) /\ outcome.state = "resolved"
                           THEN [connection[c] EXCEPT !.credentials = outcome.credentials]
                           ELSE connection[c]]

\* new Promise(async (resolve, reject) => ...): the executor runs up to the
\* outbound refresh call; then the audit writes, then the push.
StartRefresh(c) ==
    /\ promise' = [promise EXCEPT ![c] = Pending]
    /\ executor' = [executor EXCEPT ![c] = "outbound"]
    /\ IF AuditContext(c)
       THEN /\ pc' = [pc EXCEPT ![c] = "createActivityLogMessage"]
            /\ UNCHANGED <<runningCredentialsRefreshes, awaiting, result, connection>>
       ELSE /\ runningCredentialsRefreshes' =
                 Append(runningCredentialsRefreshes,
                        [connectionId |-> connection[c].connection_id,
                         providerConfigKey |-> connection[c].provider_config_key,
                         promise |-> c])
            /\ pc' = [pc EXCEPT ![c] = "awaitRefresh"]
            /\ awaiting' = [awaiting EXCEPT ![c] = c]
            /\ UNCHANGED <<result, connection>>

\* template.token_expiration_buffer || 15 * 60: an absent buffer and a
\* buffer of 0 are both falsy.
ExpirationBuffer(template) ==
    IF /\ "token_expiration_buffer" \in DOMAIN template
       /\ template.token_expiration_buffer # 0
    THEN template.token_expiration_buffer
    ELSE DefaultExpirationBuffer

\* NeedsRefresh with the refresh token not asked for.
NeedsRefresh_WithoutRefreshToken(credentials, provider, refresh, clock) ==
    \/ refresh
    \/ /\ credentials.expires_at # NoDate
       /\ isTokenExpired(clock, credentials.expires_at, ExpirationBuffer(getTemplate(provider)))

\* NeedsRefresh with credentials that have no expiration date taken as expired.
NeedsRefresh_NoExpiryIsExpired(credentials, provider, refresh, clock) ==
    /\ credentials.refresh_token # NoToken
    /\ \/ refresh
       \/ credentials.expires_at = NoDate
       \/ isTokenExpired(clock, credentials.expires_at, ExpirationBuffer(getTemplate(provider)))

\* NeedsRefresh with the result of the introspection left out.
NeedsRefresh_IntrospectionIgnored(credentials, provider, refresh, clock) ==
    /\ credentials.refresh_token # NoToken
    /\ credentials.expires_at # NoDate
    /\ isTokenExpired(clock, credentials.expires_at, ExpirationBuffer(getTemplate(provider)))

\* credentials.refresh_token && (refresh || (credentials.expires_at &&
\* isTokenExpired(credentials.expires_at, template.token_expiration_buffer || 15 * 60)))
NeedsRefresh(credentials, provider, refresh, clock) ==
    /\ credentials.refresh_token # NoToken
    /\ \/ refresh
       \/ /\ credentials.expires_at # NoDate
          /\ isTokenExpired(clock, credentials.expires_at, ExpirationBuffer(getTemplate(provider)))

\* Lines 471-538, once `refresh` is known.
Decide(c, refresh) ==
    IF NeedsRefresh(connection[c].credentials, ProviderOf(connection[c].provider_config_key),
                    refresh, now)
    THEN StartRefresh(c)
    ELSE /\ ReturnCredentials(c)
         /\ UNCHANGED <<promise, executor, runningCredentialsRefreshes>>

\* refreshOauth2CredentialsIfNeeded with the registry looked at only when
\* the credentials of the call need a refresh.
RefreshOauth2CredentialsIfNeeded_StalenessFirst(c) ==
    LET runningRefresh == RunningRefresh(runningCredentialsRefreshes,
                                         connection[c].connection_id,
                                         connection[c].provider_config_key)
    IN IF ~NeedsRefresh(connection[c].credentials,
                        ProviderOf(connection[c].provider_config_key),
                        args[c].instantRefresh, now)
       THEN /\ ReturnCredentials(c)
            /\ UNCHANGED <<promise, executor, runningCredentialsRefreshes>>
       ELSE IF runningRefresh # 0
       THEN /\ ReturnPromise(c, runningRefresh)
            /\ UNCHANGED <<promise, executor, runningCredentialsRefreshes>>
       ELSE StartRefresh(c)

\* refreshOauth2CredentialsIfNeeded up to its first suspension point.
RefreshOauth2CredentialsIfNeeded(c) ==
    LET runningRefresh == RunningRefresh(runningCredentialsRefreshes,
                                         connection[c].connection_id,
                                         connection[c].provider_config_key)
    IN IF runningRefresh # 0
       THEN /\ ReturnPromise(c, runningRefresh)
            /\ UNCHANGED <<promise, executor, runningCredentialsRefreshes>>
       ELSE IF ~args[c].instantRefresh
               /\ shouldIntrospectToken(ProviderOf(connection[c].provider_config_key))
       THEN /\ pc' = [pc EXCEPT ![c] = "introspectedTokenExpired"]
            /\ UNCHANGED <<promise, executor, runningCredentialsRefreshes, awaiting, result,
                           connection>>
       ELSE Decide(c, args[c].instantRefresh)

\* The catch block of the executor: the entries of the key are removed, the
\* failure is written to the activity log, then the promise is rejected.
Catch(p, e) ==
    /\ runningCredentialsRefreshes' =
         RemoveRefreshes(runningCredentialsRefreshes, connection[p].connection_id,
                         connection[p].provider_config_key)
    /\ IF AuditContext(p)
       THEN /\ executor' = [executor EXCEPT ![p] = "catch createActivityLogMessage"]
            /\ caught' = [caught EXCEPT ![p] = e]
            /\ UNCHANGED <<promise, pc, result, connection>>
       ELSE /\ Settle(p, Rejected(e))
            /\ UNCHANGED caught

\* ParsedExpiration without the parsing: the credentials as they were stored.
ParsedExpiration_NotParsed(credentials) == credentials

\* getConnection, lines 246-254: the expiration date of OAuth2 credentials
\* is parsed again.
ParsedExpiration(credentials) ==
    IF credentials.type = "OAUTH2" /\ credentials.expires_at # NoDate
    THEN [credentials EXCEPT !.expires_at = parseTokenExpirationDate(credentials.expires_at)]
    ELSE credentials

\* getConnection, lines 244-256: the connection getConnection returns.
ParsedConnection(conn) == [conn EXCEPT !.credentials = ParsedExpiration(conn.credentials)]

\* ----------------------------------------------------------------- actions
\* activityLogId and action of a call: no activity log, or activity log 1
\* with the action 'token' or another one.
AuditContexts == {<<NoActivityLog, "token">>, <<1, "token">>, <<1, "proxy">>}

\* getConnectionCredentials up to and including the read of getConnection.
GetConnectionCredentials(c, environmentId, connectionId, providerConfigKey, audit, instantRefresh) ==
    /\ pc[c] = "idle"
    /\ \A earlier \in 1..(c - 1) : pc[earlier] # "idle"
    /\ args' = [args EXCEPT ![c] =
                  [environmentId |-> environmentId, connectionId |-> connectionId,
                   providerConfigKey |-> providerConfigKey, activityLogId |-> audit[1],
                   action |-> audit[2], instantRefresh |-> instantRefresh]]
    /\ LET rows == SelectRows(nango_connections,
                              Triple(connectionId, providerConfigKey, environmentId))
       IN IF rows = <<>>
          THEN Throw(c, Error("unknown_connection", c))
          ELSE /\ connection' = [connection EXCEPT ![c] =
                    ParsedConnection(DecryptConnection(encryption_key, rows[1]))]
               /\ pc' = [pc EXCEPT ![c] = "getProviderConfig"]
               /\ UNCHANGED <<result, awaiting>>
    /\ UNCHANGED <<nango_connections, encryption_key, schedules, providerConfig, runningCredentialsRefreshes, now,
                   promise, executor, caught>>

\* ProviderConfigLoaded with the refresh started whatever the type of the
\* credentials.
ProviderConfigLoaded_RefreshesAnyType(c) ==
    /\ pc[c] = "getProviderConfig"
    /\ providerConfig' = [providerConfig EXCEPT
                            ![c] = ProviderConfig(ProviderOf(connection[c].provider_config_key))]
    /\ IF connection[c].credentials.type = "OAUTH2"
       THEN RefreshOauth2CredentialsIfNeeded(c)
       ELSE StartRefresh(c)
    /\ UNCHANGED <<nango_connections, encryption_key, schedules, now, args, caught>>

\* The provider config has been read: OAuth2 credentials are refreshed if
\* needed, any other credentials are returned as they are.
ProviderConfigLoaded(c) ==
    /\ pc[c] = "getProviderConfig"
    /\ providerConfig' = [providerConfig EXCEPT
                            ![c] = ProviderConfig(ProviderOf(connection[c].provider_config_key))]
    /\ IF connection[c].credentials.type = "OAUTH2"
       THEN RefreshOauth2CredentialsIfNeeded(c)
       ELSE /\ ReturnCredentials(c)
            /\ UNCHANGED <<promise, executor, runningCredentialsRefreshes>>
    /\ UNCHANGED <<nango_connections, encryption_key, schedules, now, args, caught>>

\* providerClient.introspectedTokenExpired answers.
IntrospectedTokenExpired(c, expired) ==
    /\ pc[c] = "introspectedTokenExpired"
    /\ Decide(c, expired)
    /\ UNCHANGED <<nango_connections, encryption_key, schedules, providerConfig, now, args, caught>>

\* The two activity-log writes of lines 523-530 have returned, or one of
\* them has thrown; after them the refresh is pushed and its promise returned.
RefreshLogged(c, written) ==
    /\ pc[c] = "createActivityLogMessage"
    /\ IF written
       THEN /\ runningCredentialsRefreshes' =
                 Append(runningCredentialsRefreshes,
                        [connectionId |-> connection[c].connection_id,
                         providerConfigKey |-> connection[c].provider_config_key,
                         promise |-> c])
            /\ ReturnPromise(c, c)
       ELSE /\ Throw(c, Error("activity_log", c))
            /\ UNCHANGED runningCredentialsRefreshes
    /\ UNCHANGED <<nango_connections, encryption_key, schedules, providerConfig, now, args, promise, executor, caught>>

\* ---------------------------------------------------------------- executor
\* The values of the fields of an untyped object: undefined, strings and
\* numbers (tokens and dates are the tagged tuples above).
Undefined == <<>>
Str(s) == <<"string", s>>
Num(n) == <<"number", n>>
NaN == <<"NaN">>
InvalidDate == <<"Date", NaN>>

\* rawCreds[name]: undefined for a field the object does not have.
Field(rawCreds, name) == IF name \in DOMAIN rawCreds THEN rawCreds[name] ELSE Undefined

\* The truthiness of a field: undefined (an absent field), "" and 0 are falsy.
Truthy(v) == v # Undefined /\ v # Str("") /\ v # Num(0)

\* Number.parseInt(v, 10) on the values of expires_in that are used here.
parseInt(v) ==
    CASE v[1] = "number" -> v
      [] v = Str("3600") -> Num(3600)
      [] v = Str("0") -> Num(0)
      [] OTHER -> NaN

\* new Date(Date.now() + seconds * 1000)
DateAfter(clock, seconds) == IF seconds = NaN THEN InvalidDate ELSE Date(clock + seconds[2])

\* A raw token response; NoToken and NoDate stand for absent fields.
RawCredentials(access_token, refresh_token, expires_at, expires_in) ==
    [access_token |-> access_token, refresh_token |-> refresh_token,
     expires_at |-> expires_at, expires_in |-> Num(expires_in),
     oauth_token |-> NoToken, oauth_token_secret |-> NoToken]

Parsed(credentials) == [error |-> "", credentials |-> credentials]
ParseError(code) == [error |-> code, credentials |-> NoCredentials]

\* The credentials with raw: rawCreds.
WithRaw(credentials, rawCreds) ==
    [f \in DOMAIN credentials \cup {"raw"} |->
        IF f = "raw" THEN rawCreds ELSE credentials[f]]

\* parseRawCredentials that asks for oauth_token only.
parseRawCredentials_SecretNotRequired(rawCreds, authMode, clock) ==
    IF authMode = "OAUTH1" /\ Truthy(Field(rawCreds, "oauth_token"))
    THEN Parsed(WithRaw(OAuth1Credentials(Field(rawCreds, "oauth_token"),
                                          Field(rawCreds, "oauth_token_secret")), rawCreds))
    ELSE ParseError("incomplete_raw_credentials")

\* parseRawCredentials that reads any other auth mode as OAuth2.
parseRawCredentials_DefaultIsOAuth2(rawCreds, authMode, clock) ==
    IF Truthy(Field(rawCreds, "access_token"))
    THEN Parsed(WithRaw(OAuth2Credentials(Field(rawCreds, "access_token"),
                                          Field(rawCreds, "refresh_token"), NoDate), rawCreds))
    ELSE ParseError("incomplete_raw_credentials")

\* parseRawCredentials(rawCredentials, authMode)
parseRawCredentials(rawCreds, authMode, clock) ==
    CASE authMode = "OAUTH2" ->
           IF ~Truthy(Field(rawCreds, "access_token"))
           THEN ParseError("incomplete_raw_credentials")
           ELSE Parsed(WithRaw(OAuth2Credentials(
                         Field(rawCreds, "access_token"), Field(rawCreds, "refresh_token"),
                         IF Truthy(Field(rawCreds, "expires_at"))
                         THEN parseTokenExpirationDate(Field(rawCreds, "expires_at"))
                         ELSE IF Truthy(Field(rawCreds, "expires_in"))
                         THEN DateAfter(clock, parseInt(Field(rawCreds, "expires_in")))
                         ELSE NoDate), rawCreds))
      [] authMode = "OAUTH1" ->
           IF ~Truthy(Field(rawCreds, "oauth_token"))
              \/ ~Truthy(Field(rawCreds, "oauth_token_secret"))
           THEN ParseError("incomplete_raw_credentials")
           ELSE Parsed(WithRaw(OAuth1Credentials(Field(rawCreds, "oauth_token"),
                                                 Field(rawCreds, "oauth_token_secret")),
                               rawCreds))
      [] OTHER -> ParseError("unknown credentials type")

\* What providerClientManager.refreshToken can hand over for the refresh
\* token of p's connection: a token response for the grant of that refresh
\* token, or one that lacks the access token.
refreshToken(p) ==
    LET grant == connection[p].credentials.refresh_token[2]
    IN { RawCredentials(AccessToken(grant, p), RefreshToken(grant), NoDate, 3600),
         RawCredentials(NoToken, NoToken, NoDate, 0) }

\* What getFreshOAuth2Credentials returns for the refresh token of p's
\* connection: new credentials of the grant of that refresh token.
getFreshOAuth2Credentials(p, clock) ==
    LET grant == connection[p].credentials.refresh_token[2]
    IN OAuth2Credentials(AccessToken(grant, p), RefreshToken(grant), Date(clock + 3600))

\* Lines 486-488: the new credentials are put on the connection and
\* updateConnection is called.
NewCredentials(p, newCredentials) ==
    /\ connection' = [connection EXCEPT ![p].credentials = newCredentials]
    /\ executor' = [executor EXCEPT ![p] = "updateConnection"]
    /\ UNCHANGED <<runningCredentialsRefreshes, promise, pc, result, caught>>

\* The outbound refresh call returns: the provider client's response is
\* parsed, getFreshOAuth2Credentials hands over the credentials; a failure
\* of the parser goes to the catch block.
RefreshTokenReturned(p) ==
    /\ executor[p] = "outbound"
    /\ IF shouldUseProviderClient(ProviderOf(connection[p].provider_config_key))
       THEN \E rawCreds \in refreshToken(p) :
              LET newCredentials == parseRawCredentials(rawCreds, "OAUTH2", now)
              IN IF newCredentials.error = ""
                 THEN NewCredentials(p, newCredentials.credentials)
                 ELSE Catch(p, Error(newCredentials.error, p))
       ELSE NewCredentials(p, getFreshOAuth2Credentials(p, now))
    /\ UNCHANGED <<nango_connections, encryption_key, schedules, providerConfig, now, args, awaiting>>

\* RefreshTokenFailed with the failure of the outbound call surfacing only
\* after the assignment of line 486.
RefreshTokenFailed_AfterAssignment(p) ==
    /\ executor[p] = "updateConnection"
    /\ Catch(p, Error("refresh_failed", p))
    /\ UNCHANGED <<nango_connections, encryption_key, schedules, providerConfig, now, args, awaiting>>

\* The outbound refresh call throws.
RefreshTokenFailed(p) ==
    /\ executor[p] = "outbound"
    /\ Catch(p, Error("refresh_failed", p))
    /\ UNCHANGED <<nango_connections, encryption_key, schedules, providerConfig, now, args, awaiting>>

\* updateConnection: the database runs the update of the rows of the triple.
UpdateConnection(p) ==
    /\ executor[p] = "updateConnection"
    /\ nango_connections' =
         UpdateRows(nango_connections,
                    Triple(connection[p].connection_id, connection[p].provider_config_key,
                           connection[p].environment_id),
                    EncryptConnection(encryption_key, connection[p]))
    /\ executor' = [executor EXCEPT ![p] = "updated"]
    /\ UNCHANGED <<encryption_key, schedules, providerConfig, runningCredentialsRefreshes, now, pc, args,
                   connection, awaiting, result, promise, caught>>

\* The update has returned: the entries of the key are removed and the
\* promise resolves with the new credentials.
UpdateConnectionReturned(p) ==
    /\ executor[p] = "updated"
    /\ runningCredentialsRefreshes' =
         RemoveRefreshes(runningCredentialsRefreshes, connection[p].connection_id,
                         connection[p].provider_config_key)
    /\ Settle(p, Resolved(connection[p].credentials))
    /\ UNCHANGED <<nango_connections, encryption_key, schedules, providerConfig, now, args, awaiting, caught>>

\* The update throws.
UpdateConnectionFailed(p) ==
    /\ executor[p] = "updateConnection"
    /\ Catch(p, Error("update_failed", p))
    /\ UNCHANGED <<nango_connections, encryption_key, schedules, providerConfig, now, args, awaiting>>

\* The two activity-log writes of lines 503-510 have returned, and reject(e)
\* follows, or one of them has thrown: a throw inside the catch block ends
\* the executor with neither resolve nor reject.
FailureLogged(p, written) ==
    /\ executor[p] = "catch createActivityLogMessage"
    /\ IF written
       THEN Settle(p, Rejected(caught[p]))
       ELSE /\ executor' = [executor EXCEPT ![p] = "dead"]
            /\ UNCHANGED <<pc, connection, result, promise>>
    /\ UNCHANGED <<nango_connections, encryption_key, schedules, providerConfig, runningCredentialsRefreshes, now, args,
                   awaiting, caught>>

Next ==
    \/ \E c \in Calls, environmentId \in Environments, connectionId \in ConnectionIds,
          providerConfigKey \in ProviderConfigKeys, audit \in AuditContexts,
          instantRefresh \in BOOLEAN :
         GetConnectionCredentials(c, environmentId, connectionId, providerConfigKey, audit,
                                  instantRefresh)
    \/ \E c \in Calls : ProviderConfigLoaded(c)
    \/ \E c \in Calls, expired \in BOOLEAN : IntrospectedTokenExpired(c, expired)
    \/ \E c \in Calls, written \in BOOLEAN : RefreshLogged(c, written)
    \/ \E p \in Calls : RefreshTokenReturned(p)
    \/ \E p \in Calls : RefreshTokenFailed(p)
    \/ \E p \in Calls : UpdateConnection(p)
    \/ \E p \in Calls : UpdateConnectionReturned(p)
    \/ \E p \in Calls : UpdateConnectionFailed(p)
    \/ \E p \in Calls, written \in BOOLEAN : FailureLogged(p, written)

Spec == Init /\ [][Next]_vars

\* Every call that has started goes on: the database, the activity log and
\* the provider answer every request (with a result or an error) and Node.js
\* runs every continuation that is ready.  New calls need not arrive.
Progress ==
    \/ \E c \in Calls : ProviderConfigLoaded(c)
    \/ \E c \in Calls, expired \in BOOLEAN : IntrospectedTokenExpired(c, expired)
    \/ \E c \in Calls, written \in BOOLEAN : RefreshLogged(c, written)
    \/ \E p \in Calls : RefreshTokenReturned(p)
    \/ \E p \in Calls : RefreshTokenFailed(p)
    \/ \E p \in Calls : UpdateConnection(p)
    \/ \E p \in Calls : UpdateConnectionReturned(p)
    \/ \E p \in Calls : UpdateConnectionFailed(p)
    \/ \E p \in Calls, written \in BOOLEAN : FailureLogged(p, written)

FairSpec == Spec /\ WF_vars(Progress)

\* ------------------------------------------------------------ vocabulary
Finished(c) == pc[c] \in {"done", "failed"}

\* The row a call addresses, and the key its refresh is registered under.
TripleOf(c) == Triple(args[c].connectionId, args[c].providerConfigKey, args[c].environmentId)
KeyOf(c) == <<args[c].connectionId, args[c].providerConfigKey>>

\* The outbound refresh request of p's promise is on its way.
InFlight(p) == executor[p] = "outbound"

\* What getConnection would read from the row of a triple.
StoredCredentials(triple) ==
    ParsedExpiration(DecryptCredentials(encryption_key, SelectRows(nango_connections, triple)[1]))

\* Call c has just been handed the outcome of a refresh.
Receives(c) == ~Finished(c) /\ Finished(c)' /\ awaiting'[c] # 0

\* The provider of the connection call c holds.
ProviderOfCall(c) == ProviderOf(connection[c].provider_config_key)

\* Call c is about to enter refreshOauth2CredentialsIfNeeded or to skip it:
\* this step hands it its provider config.
GetsProviderConfig(c) == pc[c] = "getProviderConfig" /\ providerConfig'[c][1] = "config"

\* The lookup of lines 456-465 finds no entry of the connection of call c.
NotRefreshing(c) ==
    RunningRefresh(runningCredentialsRefreshes, connection[c].connection_id,
                   connection[c].provider_config_key) = 0

\* This step of call c starts no refresh and writes nothing: no promise, no
\* outbound call, no entry, no row.
StartsNothing(c) ==
    /\ executor'[c] = "none"
    /\ promise'[c] = NoPromise
    /\ awaiting'[c] = 0
    /\ runningCredentialsRefreshes' = runningCredentialsRefreshes
    /\ nango_connections' = nango_connections

\* This step of call c returns the credentials of its connection unchanged.
ReturnsUnchanged(c) ==
    /\ pc'[c] = "done"
    /\ result'[c] = Returned(connection[c].credentials)
    /\ connection'[c] = connection[c]

\* ------------------------------------------------- the freshness decision
\* getConnectionCredentials on connections of every kind: OAuth2 credentials
\* that expire at, just before and just after the buffers of the templates,
\* that do not expire, that have no refresh token, and credentials of the
\* other types.
FreshnessKeys == {"slack", "salesforce", "figma", "hubspot", "zoho"}

FreshnessCases ==
    {[type |-> "OAUTH2", expires |-> TRUE, offset |-> o, refreshable |-> TRUE] :
        o \in {300, 301, 600, 900, 901}}
    \cup {[type |-> "OAUTH2", expires |-> FALSE, offset |-> 0, refreshable |-> TRUE],
          [type |-> "OAUTH2", expires |-> TRUE, offset |-> -1, refreshable |-> FALSE],
          [type |-> "OAUTH2", expires |-> FALSE, offset |-> 0, refreshable |-> FALSE]}
    \cup {[type |-> t, expires |-> FALSE, offset |-> 0, refreshable |-> FALSE] :
           t \in {"API_KEY", "BASIC", "OAUTH1"}}

CaseCredentials(triple, case, clock) ==
    CASE case.type = "OAUTH2" ->
           OAuth2Credentials(AccessToken(triple, 0),
                             IF case.refreshable THEN RefreshToken(triple) ELSE NoToken,
                             IF case.expires THEN Date(clock + case.offset) ELSE NoDate)
      [] case.type = "API_KEY" -> ApiKeyCredentials(<<"apiKey", triple>>)
      [] case.type = "BASIC" -> BasicApiCredentials(<<"username", triple>>, <<"password", triple>>)
      [] OTHER -> OAuth1Credentials(<<"oauth_token", triple>>, <<"oauth_token_secret", triple>>)

\* A table with one row per key in environment 1, each of the case.
FreshnessConnections(key, case, clock) ==
    LET triples == SetToSeq({Triple(c, k, 1) : c \in ConnectionIds, k \in FreshnessKeys})
    IN [i \in 1..Len(triples) |->
          EncryptConnection(key,
            Connection(triples[i][1], triples[i][2], triples[i][3],
                       CaseCredentials(triples[i], case, clock), NoConnectionConfig))]

FreshnessInit ==
    /\ encryption_key = "key"
    /\ now = 1000
    /\ \E case \in FreshnessCases :
         nango_connections = FreshnessConnections(encryption_key, case, now)
    /\ schedules = {}
    /\ providerConfig = [c \in Calls |-> Unread]
    /\ runningCredentialsRefreshes = <<>>
    /\ pc = [c \in Calls |-> "idle"]
    /\ args = [c \in Calls |-> NoArgs]
    /\ connection = [c \in Calls |-> NoConnection]
    /\ awaiting = [c \in Calls |-> 0]
    /\ result = [c \in Calls |-> NoResult]
    /\ promise = [c \in Calls |-> NoPromise]
    /\ executor = [c \in Calls |-> "none"]
    /\ caught = [c \in Calls |-> NoError]

\* What configService.getTemplate(undefined) does when there is no provider
\* config: it returns undefined or it throws.
TemplateOfNoProvider == {"undefined", "throws"}

\* getProviderConfig has returned null.  With an activity log the call ends
\* with unknown_provider_config (lines 363-372); without one it goes on with
\* config = null: credentials that are not OAuth2 are returned, and
\* refreshOauth2CredentialsIfNeeded runs with providerConfig = null, where
\* providerConfig.provider throws a TypeError at line 469 unless
\* instantRefresh is set, and at line 479 inside the executor otherwise.
ProviderConfigMissing(c) ==
    /\ pc[c] = "getProviderConfig"
    /\ providerConfig' = [providerConfig EXCEPT ![c] = NoProviderConfig]
    /\ LET runningRefresh == RunningRefresh(runningCredentialsRefreshes,
                                            connection[c].connection_id,
                                            connection[c].provider_config_key)
           typeError == Error("TypeError", c)
       IN IF args[c].activityLogId # NoActivityLog
          THEN /\ Throw(c, Error("unknown_provider_config", c))
               /\ UNCHANGED <<promise, executor, runningCredentialsRefreshes>>
          ELSE \E template \in TemplateOfNoProvider :
                 IF template = "throws"
                 THEN /\ Throw(c, Error("unknown_provider_template", c))
                      /\ UNCHANGED <<promise, executor, runningCredentialsRefreshes>>
                 ELSE IF connection[c].credentials.type # "OAUTH2"
                 THEN /\ ReturnCredentials(c)
                      /\ UNCHANGED <<promise, executor, runningCredentialsRefreshes>>
                 ELSE IF runningRefresh # 0
                 THEN /\ ReturnPromise(c, runningRefresh)
                      /\ UNCHANGED <<promise, executor, runningCredentialsRefreshes>>
                 ELSE IF ~args[c].instantRefresh
                 THEN /\ Throw(c, typeError)
                      /\ UNCHANGED <<promise, executor, runningCredentialsRefreshes>>
                 ELSE IF connection[c].credentials.refresh_token = NoToken
                 THEN /\ ReturnCredentials(c)
                      /\ UNCHANGED <<promise, executor, runningCredentialsRefreshes>>
                 ELSE /\ promise' = [promise EXCEPT ![c] = Rejected(typeError)]
                      /\ executor' = [executor EXCEPT ![c] = "settled"]
                      /\ runningCredentialsRefreshes' =
                           Append(RemoveRefreshes(runningCredentialsRefreshes,
                                                  connection[c].connection_id,
                                                  connection[c].provider_config_key),
                                  [connectionId |-> connection[c].connection_id,
                                   providerConfigKey |-> connection[c].provider_config_key,
                                   promise |-> c])
                      /\ awaiting' = [awaiting EXCEPT ![c] = c]
                      /\ pc' = [pc EXCEPT ![c] = "failed"]
                      /\ result' = [result EXCEPT ![c] = Thrown(typeError)]
                      /\ UNCHANGED connection
    /\ UNCHANGED <<nango_connections, encryption_key, schedules, now, args, caught>>

\* The calls are made in environment 1, without an activity log or with one
\* whose action is not 'token'.
FreshnessNext ==
    \/ \E c \in Calls, providerConfigKey \in FreshnessKeys,
          audit \in {<<NoActivityLog, "token">>, <<1, "proxy">>}, instantRefresh \in BOOLEAN :
         GetConnectionCredentials(c, 1, "c1", providerConfigKey, audit, instantRefresh)
    \/ \E c \in Calls : ProviderConfigLoaded(c)
    \/ \E c \in Calls : ProviderConfigMissing(c)
    \/ \E c \in Calls, expired \in BOOLEAN : IntrospectedTokenExpired(c, expired)
    \/ \E p \in Calls : RefreshTokenReturned(p)
    \/ \E p \in Calls : UpdateConnection(p)
    \/ \E p \in Calls : UpdateConnectionReturned(p)

FreshnessSpec == FreshnessInit /\ [][FreshnessNext]_vars

\* ------------------------------------------------------ the connection store
\* The operations of the store on the connection (c1, slack) of environment
\* 1, next to the connection (c1, slack) of environment 2, which no call
\* writes.  A statement of the database runs in one step; a call that has
\* ended leaves its result until the next call takes its place.
StoreTriples == {Triple(c, "slack", 1) : c \in ConnectionIds}

\* The connection of environment 2.
OtherConnection ==
    Connection("c1", "slack", 2,
               OAuth2Credentials(AccessToken(Triple("c1", "slack", 2), 0),
                                 RefreshToken(Triple("c1", "slack", 2)), NoDate),
               NoConnectionConfig)
ConnectionConfigs == {<<"instance_url", "a">>, <<"instance_url", "b">>}
ApiKeys == {"k1", "k2"}

NoOperation == [op |-> "none", connectionId |-> "", providerConfigKey |-> "",
                environmentId |-> 0]
Operation(op, triple) ==
    [op |-> op, connectionId |-> triple[1], providerConfigKey |-> triple[2],
     environmentId |-> triple[3]]

\* environmentService.getEnvironmentName
getEnvironmentName(environment_id) == <<"environment", environment_id>>

\* insert(row) without onConflict: the row is added.
Upsert_WithoutOnConflict(table, row) == Append(table, row)

\* insert(row).onConflict(['provider_config_key', 'connection_id',
\* 'environment_id']).merge(): the row of the triple takes the new columns,
\* or the row is added.
Upsert(table, row) ==
    IF SelectRows(table, TripleOfRow(row)) # <<>>
    THEN UpdateRows(table, TripleOfRow(row), row)
    ELSE Append(table, row)

StoreInit ==
    /\ encryption_key = "key"
    /\ now = 1000
    /\ nango_connections = <<EncryptConnection(encryption_key, OtherConnection)>>
    /\ schedules = {}
    /\ providerConfig = [c \in Calls |-> Unread]
    /\ runningCredentialsRefreshes = <<>>
    /\ pc = [c \in Calls |-> "idle"]
    /\ args = [c \in Calls |-> NoOperation]
    /\ connection = [c \in Calls |-> NoConnection]
    /\ awaiting = [c \in Calls |-> 0]
    /\ result = [c \in Calls |-> NoResult]
    /\ promise = [c \in Calls |-> NoPromise]
    /\ executor = [c \in Calls |-> "none"]
    /\ caught = [c \in Calls |-> NoError]

\* Call c of an operation begins.
Begins(c, operation, conn) ==
    /\ pc[c] = "idle"
    /\ \A earlier \in 1..(c - 1) : pc[earlier] # "idle"
    /\ args' = [args EXCEPT ![c] = operation]
    /\ connection' = [connection EXCEPT ![c] = conn]

\* The call returns what it has to return (an id, a count, a connection).
Returns(c, credentials) ==
    /\ pc' = [pc EXCEPT ![c] = "done"]
    /\ result' = [result EXCEPT ![c] = Returned(credentials)]

\* What the operations of the store never touch.
StoreFrame == UNCHANGED <<encryption_key, providerConfig, runningCredentialsRefreshes, now,
                          awaiting, executor, caught>>

\* upsertConnection: the insert with onConflict().merge() runs.
UpsertConnection(c, triple, connectionConfig) ==
    LET conn == Connection(triple[1], triple[2], triple[3],
                           OAuth2Credentials(AccessToken(triple, 0), RefreshToken(triple), NoDate),
                           connectionConfig)
    IN /\ Begins(c, Operation("upsertConnection", triple), conn)
       /\ nango_connections' = Upsert(nango_connections, EncryptConnection(encryption_key, conn))
       /\ Returns(c, NoCredentials)
       /\ UNCHANGED <<schedules, promise>>
       /\ StoreFrame

\* upsertApiConnection
UpsertApiConnection(c, triple, apiKey, connectionConfig) ==
    LET conn == Connection(triple[1], triple[2], triple[3], ApiKeyCredentials(apiKey),
                           connectionConfig)
    IN /\ Begins(c, Operation("upsertApiConnection", triple), conn)
       /\ nango_connections' = Upsert(nango_connections, EncryptConnection(encryption_key, conn))
       /\ Returns(c, NoCredentials)
       /\ UNCHANGED <<schedules, promise>>
       /\ StoreFrame

\* importOAuthConnection up to the return of upsertConnection.
ImportOAuthConnection(c, triple, connectionConfig) ==
    LET conn == Connection(triple[1], triple[2], triple[3],
                           OAuth2Credentials(AccessToken(triple, 0), RefreshToken(triple), NoDate),
                           connectionConfig)
    IN /\ Begins(c, Operation("importOAuthConnection", triple), conn)
       /\ nango_connections' = Upsert(nango_connections, EncryptConnection(encryption_key, conn))
       /\ pc' = [pc EXCEPT ![c] = "initiate"]
       /\ UNCHANGED <<schedules, promise, result>>
       /\ StoreFrame

\* importApiAuthConnection up to the return of checkIfConnectionExists.
ImportApiAuthConnection(c, triple, apiKey) ==
    LET conn == Connection(triple[1], triple[2], triple[3], ApiKeyCredentials(apiKey),
                           NoConnectionConfig)
    IN /\ Begins(c, Operation("importApiAuthConnection", triple), conn)
       /\ IF SelectRows(nango_connections, triple) # <<>>
          THEN /\ pc' = [pc EXCEPT ![c] = "failed"]
               /\ result' = [result EXCEPT ![c] = Thrown(Error("connection_already_exists", c))]
          ELSE /\ pc' = [pc EXCEPT ![c] = "upsertApiConnection"]
               /\ UNCHANGED result
       /\ UNCHANGED <<nango_connections, schedules, promise>>
       /\ StoreFrame

\* importApiAuthConnection, line 184: the insert of upsertApiConnection runs.
ImportUpserted(c) ==
    /\ pc[c] = "upsertApiConnection"
    /\ nango_connections' =
         Upsert(nango_connections, EncryptConnection(encryption_key, connection[c]))
    /\ pc' = [pc EXCEPT ![c] = "initiate"]
    /\ UNCHANGED <<schedules, promise, result, args, connection>>
    /\ StoreFrame

\* syncClient.initiate: the sync work of the imported connection is
\* scheduled, and the import returns.
SyncInitiated(c) ==
    /\ pc[c] = "initiate"
    /\ schedules' = schedules \cup {TripleOfRow(connection[c])}
    /\ Returns(c, NoCredentials)
    /\ UNCHANGED <<nango_connections, promise, args, connection>>
    /\ StoreFrame

\* updateConnection(connection) called on its own: the update runs.
UpdateConnectionCalled(c, triple, connectionConfig) ==
    LET conn == Connection(triple[1], triple[2], triple[3],
                           OAuth2Credentials(AccessToken(triple, 1), RefreshToken(triple), NoDate),
                           connectionConfig)
    IN /\ Begins(c, Operation("updateConnection", triple), conn)
       /\ nango_connections' =
            UpdateRows(nango_connections, triple, EncryptConnection(encryption_key, conn))
       /\ Returns(c, NoCredentials)
       /\ UNCHANGED <<schedules, promise>>
       /\ StoreFrame

\* The credentials and the connections the operations write.
StoreCredentials ==
    {OAuth2Credentials(AccessToken(t, n), RefreshToken(t), NoDate) :
       t \in StoreTriples, n \in {0, 1}}
    \cup {ApiKeyCredentials(k) : k \in ApiKeys}

StoreConnections ==
    {Connection(t[1], t[2], t[3], credentials, connectionConfig) :
       t \in StoreTriples, credentials \in StoreCredentials,
       connectionConfig \in ConnectionConfigs \cup {NoConnectionConfig}}

\* deleteConnection is called with a connection that getConnection returns
\* at that moment, or with null.
Deletable(conn) ==
    \/ conn = NoConnection
    \/ \E i \in 1..Len(nango_connections) :
         DecryptConnection(encryption_key, nango_connections[i]) = conn

\* DeleteConnection with the cancellation not awaited: the delete statement
\* is issued while deleteSyncScheduleForConnection is still running.
DeleteConnection_CancellationNotAwaited(c, conn) ==
    /\ conn # NoConnection
    /\ Deletable(conn)
    /\ Begins(c, Operation("deleteConnection", TripleOfRow(conn)), conn)
    /\ promise' = [promise EXCEPT ![c] = Pending]
    /\ pc' = [pc EXCEPT ![c] = "del"]
    /\ UNCHANGED <<nango_connections, schedules, result>>
    /\ StoreFrame

\* deleteConnection(connection, providerConfigKey, environment_id) up to its
\* first await: deleteSyncScheduleForConnection(connection) is invoked; with
\* connection = null nothing is cancelled and connection.connection_id
\* throws a TypeError at line 323.
DeleteConnection(c, conn) ==
    /\ Deletable(conn)
    /\ Begins(c, Operation("deleteConnection", TripleOfRow(conn)), conn)
    /\ IF conn = NoConnection
       THEN /\ pc' = [pc EXCEPT ![c] = "failed"]
            /\ result' = [result EXCEPT ![c] = Thrown(Error("TypeError", c))]
            /\ UNCHANGED promise
       ELSE /\ promise' = [promise EXCEPT ![c] = Pending]
            /\ pc' = [pc EXCEPT ![c] = "deleteSyncScheduleForConnection"]
            /\ UNCHANGED result
    /\ UNCHANGED <<nango_connections, schedules>>
    /\ StoreFrame

\* deleteSyncScheduleForConnection has cancelled the scheduled work of the
\* connection and its promise resolves; the call that awaits it issues the
\* delete statement.
ScheduleDeleted(c) ==
    /\ promise[c] = Pending
    /\ schedules' = schedules \ {TripleOfRow(connection[c])}
    /\ promise' = [promise EXCEPT ![c] = Resolved(NoCredentials)]
    /\ pc' = [pc EXCEPT ![c] = IF pc[c] = "deleteSyncScheduleForConnection" THEN "del" ELSE pc[c]]
    /\ UNCHANGED <<nango_connections, result, args, connection>>
    /\ StoreFrame

\* The delete statement runs on the rows of connection.connection_id,
\* providerConfigKey and environment_id, and deleteConnection returns.
RowsDeleted(c) ==
    /\ pc[c] = "del"
    /\ nango_connections' =
         DeleteRows(nango_connections,
                    Triple(connection[c].connection_id, args[c].providerConfigKey,
                           args[c].environmentId))
    /\ Returns(c, NoCredentials)
    /\ UNCHANGED <<schedules, promise, args, connection>>
    /\ StoreFrame


\* The call throws NangoError(code) with a payload.
Fails(c, code, payload) ==
    /\ pc' = [pc EXCEPT ![c] = "failed"]
    /\ result' = [result EXCEPT ![c] = Thrown(Error(code, payload))]

\* GetConnection without the check of environment_id.
GetConnection_EnvironmentUnchecked(c, connectionId, providerConfigKey, environment_id) ==
    /\ Begins(c, Operation("getConnection",
                           Triple(connectionId, providerConfigKey, environment_id)),
              NoConnection)
    /\ IF connectionId = ""
       THEN Fails(c, "missing_connection", <<>>)
       ELSE IF providerConfigKey = ""
       THEN Fails(c, "missing_provider_config", <<>>)
       ELSE /\ pc' = [pc EXCEPT ![c] = "select"]
            /\ UNCHANGED result
    /\ UNCHANGED <<nango_connections, schedules, promise>>
    /\ StoreFrame

\* getConnection up to its first await: the three checks of lines 219-229,
\* then the select is issued.  "" and 0 stand for an absent key.
GetConnection(c, connectionId, providerConfigKey, environment_id) ==
    /\ Begins(c, Operation("getConnection",
                           Triple(connectionId, providerConfigKey, environment_id)),
              NoConnection)
    /\ IF connectionId = ""
       THEN Fails(c, "missing_connection", <<>>)
       ELSE IF providerConfigKey = ""
       THEN Fails(c, "missing_provider_config", <<>>)
       ELSE IF environment_id = 0
       THEN Fails(c, "missing_environment", <<>>)
       ELSE /\ pc' = [pc EXCEPT ![c] = "select"]
            /\ UNCHANGED result
    /\ UNCHANGED <<nango_connections, schedules, promise>>
    /\ StoreFrame

\* The select of getConnection runs: the first row is decrypted, its
\* expiration date parsed and the connection returned; without a row the
\* name of the environment is asked for.
SelectReturned(c) ==
    /\ pc[c] = "select"
    /\ LET rows == SelectRows(nango_connections, TripleOf(c))
       IN IF rows = <<>>
          THEN /\ pc' = [pc EXCEPT ![c] = "getEnvironmentName"]
               /\ UNCHANGED <<result, connection>>
          ELSE LET conn == ParsedConnection(DecryptConnection(encryption_key, rows[1]))
               IN /\ connection' = [connection EXCEPT ![c] = conn]
                  /\ Returns(c, conn.credentials)
    /\ UNCHANGED <<nango_connections, schedules, promise, args>>
    /\ StoreFrame

\* getEnvironmentName has returned: unknown_connection is thrown with the
\* ids and the name of the environment.
EnvironmentNameReturned(c) ==
    /\ pc[c] = "getEnvironmentName"
    /\ Fails(c, "unknown_connection",
             [connectionId |-> args[c].connectionId,
              providerConfigKey |-> args[c].providerConfigKey,
              environmentName |-> getEnvironmentName(args[c].environmentId)])
    /\ UNCHANGED <<nango_connections, schedules, promise, args, connection>>
    /\ StoreFrame

\* The caller has taken the result of call c: the next call takes its place.
CallEnds(c) ==
    /\ pc[c] \in {"done", "failed"}
    /\ promise[c] # Pending
    /\ pc' = [pc EXCEPT ![c] = "idle"]
    /\ args' = [args EXCEPT ![c] = NoOperation]
    /\ connection' = [connection EXCEPT ![c] = NoConnection]
    /\ result' = [result EXCEPT ![c] = NoResult]
    /\ promise' = [promise EXCEPT ![c] = NoPromise]
    /\ UNCHANGED <<nango_connections, schedules>>
    /\ StoreFrame

StoreNext ==
    \/ \E c \in Calls, triple \in StoreTriples, connectionConfig \in ConnectionConfigs :
         UpsertConnection(c, triple, connectionConfig)
    \/ \E c \in Calls, triple \in StoreTriples, connectionConfig \in ConnectionConfigs :
         UpsertApiConnection(c, triple, "k1", connectionConfig)
    \/ \E c \in Calls, triple \in StoreTriples, connectionConfig \in ConnectionConfigs :
         ImportOAuthConnection(c, triple, connectionConfig)
    \/ \E c \in Calls, triple \in StoreTriples, apiKey \in ApiKeys :
         ImportApiAuthConnection(c, triple, apiKey)
    \/ \E c \in Calls : ImportUpserted(c)
    \/ \E c \in Calls : SyncInitiated(c)
    \/ \E c \in Calls, triple \in StoreTriples, connectionConfig \in ConnectionConfigs :
         UpdateConnectionCalled(c, triple, connectionConfig)
    \/ \E c \in Calls, conn \in StoreConnections \cup {NoConnection} : DeleteConnection(c, conn)
    \/ \E c \in Calls : ScheduleDeleted(c)
    \/ \E c \in Calls : RowsDeleted(c)
    \/ \E c \in Calls, connectionId \in ConnectionIds \cup {""},
          providerConfigKey \in {"slack", ""}, environment_id \in Environments \cup {0} :
         GetConnection(c, connectionId, providerConfigKey, environment_id)
    \/ \E c \in Calls : SelectReturned(c)
    \/ \E c \in Calls : EnvironmentNameReturned(c)
    \/ \E c \in Calls : CallEnds(c)

StoreSpec == StoreInit /\ [][StoreNext]_vars

\* ------------------------------------------------------------- the parser
\* parseRawCredentials on untyped objects: every field absent, falsy or
\* set, under every auth mode.  The function is synchronous: a call runs to
\* its return or its throw in one step.
AuthModes == {"OAUTH2", "OAUTH1", "BASIC", "API_KEY", "APP"}

RawFields == {"access_token", "refresh_token", "expires_at", "expires_in",
              "oauth_token", "oauth_token_secret", "apiKey"}

\* The values each field of a raw object takes; Undefined: the object does
\* not have the field.
RawValues(field) ==
    CASE field = "access_token" -> {Undefined, Str(""), Str("a1")}
      [] field = "refresh_token" -> {Undefined, Str("r1")}
      [] field = "expires_at" -> {Undefined, Str(""), IsoString(5000), Date(5000)}
      [] field = "expires_in" -> {Undefined, Num(0), Num(3600), Str("3600"), Str("0"),
                                  Str(""), Str("abc")}
      [] field = "oauth_token" -> {Undefined, Str("o1")}
      [] field = "oauth_token_secret" -> {Undefined, Str(""), Str("s1")}
      [] field = "apiKey" -> {Undefined, Str("k1")}

\* The object that has the fields with a value.
RawObject(values) ==
    [f \in {g \in RawFields : values[g] # Undefined} |-> values[f]]

RawObjects ==
    {RawObject([access_token |-> a, refresh_token |-> r, expires_at |-> at, expires_in |-> in,
                oauth_token |-> o, oauth_token_secret |-> os, apiKey |-> k]) :
        a \in RawValues("access_token"), r \in RawValues("refresh_token"),
        at \in RawValues("expires_at"), in \in RawValues("expires_in"),
        o \in RawValues("oauth_token"), os \in RawValues("oauth_token_secret"),
        k \in RawValues("apiKey")}

ParseCall(rawCredentials, authMode) ==
    [op |-> "parseRawCredentials", rawCredentials |-> rawCredentials, authMode |-> authMode]

ParseInit ==
    /\ encryption_key = "key"
    /\ now \in {1000, 2000}
    /\ nango_connections = <<>>
    /\ schedules = {}
    /\ providerConfig = [c \in Calls |-> Unread]
    /\ runningCredentialsRefreshes = <<>>
    /\ pc = [c \in Calls |-> "idle"]
    /\ args = [c \in Calls |-> NoOperation]
    /\ connection = [c \in Calls |-> NoConnection]
    /\ awaiting = [c \in Calls |-> 0]
    /\ result = [c \in Calls |-> NoResult]
    /\ promise = [c \in Calls |-> NoPromise]
    /\ executor = [c \in Calls |-> "none"]
    /\ caught = [c \in Calls |-> NoError]

\* parseRawCredentials(rawCredentials, authMode) runs: it returns the
\* credentials or throws a NangoError; the payload of the error of the
\* default branch is the raw object.
ParseRawCredentialsCalled(c) ==
    /\ \A d \in Calls : pc[d] = "idle"
    /\ \E rawCredentials \in RawObjects, authMode \in AuthModes :
         /\ args' = [args EXCEPT ![c] = ParseCall(rawCredentials, authMode)]
         /\ LET parsed == parseRawCredentials(rawCredentials, authMode, now)
            IN IF parsed.error = ""
               THEN Returns(c, parsed.credentials)
               ELSE Fails(c, parsed.error, rawCredentials)
    /\ UNCHANGED <<nango_connections, schedules, connection, promise>>
    /\ StoreFrame

ParseNext ==
    \/ \E c \in Calls : ParseRawCredentialsCalled(c)
    \/ \E c \in Calls : CallEnds(c)

ParseSpec == ParseInit /\ [][ParseNext]_vars

\* -------------------------------------------------------------- the codec
\* Credentials of every variant written by upsertConnection,
\* upsertApiConnection and updateConnection and read by getConnection, with
\* and without an encryption key.
CodecTriple == Triple("c1", "slack", 1)

CodecCredentials ==
    {OAuth2Credentials(AccessToken(CodecTriple, n), r, at) :
        n \in {0, 1}, r \in {NoToken, RefreshToken(CodecTriple)}, at \in {NoDate, Date(5000)}}
    \cup {OAuth1Credentials("o1", "s1"), ApiKeyCredentials("k1"), ApiKeyCredentials("k2"),
          BasicApiCredentials("u1", "p1")}

CodecInit ==
    /\ encryption_key \in {"key", NoKey}
    /\ now = 1000
    /\ nango_connections = <<>>
    /\ schedules = {}
    /\ providerConfig = [c \in Calls |-> Unread]
    /\ runningCredentialsRefreshes = <<>>
    /\ pc = [c \in Calls |-> "idle"]
    /\ args = [c \in Calls |-> NoOperation]
    /\ connection = [c \in Calls |-> NoConnection]
    /\ awaiting = [c \in Calls |-> 0]
    /\ result = [c \in Calls |-> NoResult]
    /\ promise = [c \in Calls |-> NoPromise]
    /\ executor = [c \in Calls |-> "none"]
    /\ caught = [c \in Calls |-> NoError]

\* upsertConnection (OAuth credentials) or upsertApiConnection (api key and
\* basic credentials) with the credentials: the insert runs.
UpsertCredentials(c, credentials) ==
    LET conn == Connection(CodecTriple[1], CodecTriple[2], CodecTriple[3], credentials,
                           NoConnectionConfig)
        op == IF credentials.type \in {"API_KEY", "BASIC"}
              THEN "upsertApiConnection" ELSE "upsertConnection"
    IN /\ Begins(c, Operation(op, CodecTriple), conn)
       /\ nango_connections' = Upsert(nango_connections, EncryptConnection(encryption_key, conn))
       /\ Returns(c, NoCredentials)
       /\ UNCHANGED <<schedules, promise>>
       /\ StoreFrame

\* updateConnection(connection) with the credentials: the update runs.
UpdateCredentials(c, credentials) ==
    LET conn == Connection(CodecTriple[1], CodecTriple[2], CodecTriple[3], credentials,
                           NoConnectionConfig)
    IN /\ Begins(c, Operation("updateConnection", CodecTriple), conn)
       /\ nango_connections' =
            UpdateRows(nango_connections, CodecTriple, EncryptConnection(encryption_key, conn))
       /\ Returns(c, NoCredentials)
       /\ UNCHANGED <<schedules, promise>>
       /\ StoreFrame

CodecNext ==
    \/ \E c \in Calls, credentials \in CodecCredentials : UpsertCredentials(c, credentials)
    \/ \E c \in Calls, credentials \in CodecCredentials : UpdateCredentials(c, credentials)
    \/ \E c \in Calls : GetConnection(c, CodecTriple[1], CodecTriple[2], CodecTriple[3])
    \/ \E c \in Calls : SelectReturned(c)
    \/ \E c \in Calls : EnvironmentNameReturned(c)
    \/ \E c \in Calls : CallEnds(c)

CodecSpec == CodecInit /\ [][CodecNext]_vars

\* ---------------------------------------------------- the client's proxy()
\* Nango.proxy of the node client up to the request it hands to axios.  A
\* header name is the sequence of its words ("Connection-Id" is
\* <<"Connection", "Id">>); header values are the texts that are sent.
InternalHeaders ==
    {<<"Connection", "Id">>, <<"Provider", "Config", "Key">>, <<"Base", "Url", "Override">>,
     <<"Nango", "Is", "Sync">>, <<"Nango", "Is", "Dry", "Run">>,
     <<"Nango", "Activity", "Log", "Id">>, <<"Retries">>, <<"Authorization">>}

\* The keys a caller passes in config.headers: the names of the internal
\* headers, the rest of an internal name after "Nango-", and a name of its own.
CustomKeys == InternalHeaders \cup {<<"Is", "Sync">>, <<"X", "Custom">>}

\* config.headers: every set of keys, each with a value of the caller.
CustomHeaderSets == {[k \in keys |-> "custom"] : keys \in SUBSET CustomKeys}

\* { ...a, ...b } and obj[key] = value
Spread(a, b) == [k \in DOMAIN a \cup DOMAIN b |-> IF k \in DOMAIN b THEN b[k] ELSE a[k]]
Put(obj, key, value) == [k \in DOMAIN obj \cup {key} |-> IF k = key THEN value ELSE obj[k]]

\* The key of a custom header sent as it is.
PrefixedKey_NoPrefix(key) == key

\* `Nango-Proxy-${key}`
PrefixedKey(key) == <<"Nango", "Proxy">> \o key

\* Lines 190-197: the custom headers with their prefixed keys.
customPrefixedHeaders(customHeaders) ==
    [k \in {PrefixedKey(key) : key \in DOMAIN customHeaders} |->
        customHeaders[CHOOSE key \in DOMAIN customHeaders : PrefixedKey(key) = k]]

\* Lines 386-390: Authorization is set to the bearer of the secret key.
enrichHeaders(client, headers) ==
    Put(headers, <<"Authorization">>, <<"Bearer", client.secretKey>>)

\* a || b on texts
OrElse(a, b) == IF a # "" THEN a ELSE b

\* Lines 175-181: connectionId and providerConfigKey of the client stand in
\* for the ones the configuration lacks.
Defaulted(client, config) ==
    [config EXCEPT !.connectionId = OrElse(config.connectionId, client.connectionId),
                   !.providerConfigKey = OrElse(config.providerConfigKey,
                                                client.providerConfigKey)]

\* validateProxyConfiguration of utils.ts: connectionId and
\* providerConfigKey are required.
validateProxyConfiguration(config) == config.connectionId # "" /\ config.providerConfigKey # ""

\* Lines 199-213: the headers of the request.
ProxyHeaders(client, config) ==
    LET headers == Spread(
            [k \in InternalHeaders \ {<<"Retries">>, <<"Authorization">>} |->
                CASE k = <<"Connection", "Id">> -> config.connectionId
                  [] k = <<"Provider", "Config", "Key">> -> config.providerConfigKey
                  [] k = <<"Base", "Url", "Override">> -> OrElse(config.baseUrlOverride, "")
                  [] k = <<"Nango", "Is", "Sync">> -> client.isSync
                  [] k = <<"Nango", "Is", "Dry", "Run">> -> client.dryRun
                  [] k = <<"Nango", "Activity", "Log", "Id">> -> OrElse(client.activityLogId, "")],
            customPrefixedHeaders(config.headers))
    IN enrichHeaders(client, IF config.retries # ""
                             THEN Put(headers, <<"Retries">>, config.retries)
                             ELSE headers)

\* The clients and the configurations of the calls.
Clients ==
    [secretKey : {"secret"}, connectionId : {"", "c0"}, providerConfigKey : {""},
     isSync : {"false", "true"}, dryRun : {"false"}, activityLogId : {"", "7"}]

ProxyConfigurations ==
    [connectionId : {"", "c1"}, providerConfigKey : {"slack"}, baseUrlOverride : {"", "b"},
     retries : {"", "3"}, headers : CustomHeaderSets]

ProxyCall(client, config) == [op |-> "proxy", client |-> client, config |-> config]

\* The request handed to axios.
Request(headers) == [kind |-> "request", headers |-> headers, error |-> NoError]

\* proxy(config) up to its await: the configuration is completed and
\* validated, the headers are built and the request is handed to axios.
Proxy(c) ==
    /\ \A d \in Calls : pc[d] = "idle"
    /\ \E client \in Clients, config \in ProxyConfigurations :
         /\ args' = [args EXCEPT ![c] = ProxyCall(client, config)]
         /\ IF validateProxyConfiguration(Defaulted(client, config))
            THEN /\ pc' = [pc EXCEPT ![c] = "request"]
                 /\ result' = [result EXCEPT ![c] =
                                 Request(ProxyHeaders(client, Defaulted(client, config)))]
            ELSE Fails(c, "validateProxyConfiguration", <<>>)
    /\ UNCHANGED <<nango_connections, schedules, connection, promise>>
    /\ StoreFrame

\* axios has answered and the caller has taken the response.
ProxyReturned(c) ==
    /\ pc[c] \in {"request", "failed"}
    /\ pc' = [pc EXCEPT ![c] = "idle"]
    /\ args' = [args EXCEPT ![c] = NoOperation]
    /\ result' = [result EXCEPT ![c] = NoResult]
    /\ UNCHANGED <<nango_connections, schedules, connection, promise>>
    /\ StoreFrame

ProxyNext ==
    \/ \E c \in Calls : Proxy(c)
    \/ \E c \in Calls : ProxyReturned(c)

ProxySpec == ParseInit /\ [][ProxyNext]_vars

\* ------------------------------------------------------------ the registry
\* Calls on connections of several keys, fresh and stale, with and without
\* instant refresh and without an audit context: a call meets the refresh
\* another call has registered.
RegistryCredentials(triple, clock) ==
    CASE triple = Triple("c1", "slack", 1) ->
           OAuth2Credentials(AccessToken(triple, 0), RefreshToken(triple), Date(clock + 3600))
      [] triple = Triple("c1", "slack", 2) ->
           OAuth2Credentials(AccessToken(triple, 0), NoToken, Date(clock - 1))
      [] triple = Triple("c2", "slack", 1) ->
           OAuth2Credentials(AccessToken(triple, 0), RefreshToken(triple), Date(clock - 1))
      [] triple = Triple("c1", "salesforce", 1) ->
           OAuth2Credentials(AccessToken(triple, 0), RefreshToken(triple), Date(clock + 3600))

RegistryTriples ==
    {Triple("c1", "slack", 1), Triple("c1", "slack", 2), Triple("c2", "slack", 1),
     Triple("c1", "salesforce", 1)}

RegistryConnections(key, clock) ==
    LET triples == SetToSeq(RegistryTriples)
    IN [i \in 1..Len(triples) |->
          EncryptConnection(key,
            Connection(triples[i][1], triples[i][2], triples[i][3],
                       RegistryCredentials(triples[i], clock), NoConnectionConfig))]

RegistryInit ==
    /\ encryption_key = "key"
    /\ now = 1000
    /\ nango_connections = RegistryConnections(encryption_key, now)
    /\ schedules = {}
    /\ providerConfig = [c \in Calls |-> Unread]
    /\ runningCredentialsRefreshes = <<>>
    /\ pc = [c \in Calls |-> "idle"]
    /\ args = [c \in Calls |-> NoArgs]
    /\ connection = [c \in Calls |-> NoConnection]
    /\ awaiting = [c \in Calls |-> 0]
    /\ result = [c \in Calls |-> NoResult]
    /\ promise = [c \in Calls |-> NoPromise]
    /\ executor = [c \in Calls |-> "none"]
    /\ caught = [c \in Calls |-> NoError]

RegistryNext ==
    \/ \E c \in Calls, triple \in RegistryTriples, instantRefresh \in BOOLEAN :
         GetConnectionCredentials(c, triple[3], triple[1], triple[2],
                                  <<NoActivityLog, "token">>, instantRefresh)
    \/ \E c \in Calls : ProviderConfigLoaded(c)
    \/ \E c \in Calls, expired \in BOOLEAN : IntrospectedTokenExpired(c, expired)
    \/ \E p \in Calls : RefreshTokenReturned(p)
    \/ \E p \in Calls : RefreshTokenFailed(p)
    \/ \E p \in Calls : UpdateConnection(p)
    \/ \E p \in Calls : UpdateConnectionReturned(p)
    \/ \E p \in Calls : UpdateConnectionFailed(p)

RegistrySpec == RegistryInit /\ [][RegistryNext]_vars

\* ------------------------------------------------- deletion and refresh
\* A connection is deleted while calls ask for its credentials with an
\* instant refresh, and getConnection reads the store afterwards.  The row
\* of environment 2 is never the target of an operation.
DeletedConnection ==
    Connection("c1", "slack", 1,
               ShapedCredentials(Triple("c1", "slack", 1), "no expiry", 1000),
               NoConnectionConfig)

DeletionInit ==
    /\ encryption_key = "key"
    /\ now = 1000
    /\ nango_connections = <<EncryptConnection(encryption_key, DeletedConnection),
                              EncryptConnection(encryption_key, OtherConnection)>>
    /\ schedules = {TripleOfRow(DeletedConnection)}
    /\ providerConfig = [c \in Calls |-> Unread]
    /\ runningCredentialsRefreshes = <<>>
    /\ pc = [c \in Calls |-> "idle"]
    /\ args = [c \in Calls |-> NoOperation]
    /\ connection = [c \in Calls |-> NoConnection]
    /\ awaiting = [c \in Calls |-> 0]
    /\ result = [c \in Calls |-> NoResult]
    /\ promise = [c \in Calls |-> NoPromise]
    /\ executor = [c \in Calls |-> "none"]
    /\ caught = [c \in Calls |-> NoError]

\* Call c is a call of an operation of the store.
IsOperation(c) == "op" \in DOMAIN args[c]

\* deleteSyncScheduleForConnection returns to the deleteConnection that
\* awaits it.
CancellationReturned(c) ==
    /\ pc[c] = "deleteSyncScheduleForConnection"
    /\ ScheduleDeleted(c)

\* The caller has taken the result of an operation of the store.
OperationEnds(c) ==
    /\ IsOperation(c)
    /\ CallEnds(c)

DeletionNext ==
    \/ \E c \in Calls :
         GetConnectionCredentials(c, 1, "c1", "slack", <<NoActivityLog, "token">>, TRUE)
    \/ \E c \in Calls : ProviderConfigLoaded(c)
    \/ \E p \in Calls : RefreshTokenReturned(p)
    \/ \E p \in Calls : RefreshTokenFailed(p)
    \/ \E p \in Calls : UpdateConnection(p)
    \/ \E p \in Calls : UpdateConnectionReturned(p)
    \/ \E c \in Calls : DeleteConnection(c, DeletedConnection)
    \/ \E c \in Calls : CancellationReturned(c)
    \/ \E c \in Calls : RowsDeleted(c)
    \/ \E c \in Calls, environment_id \in Environments :
         GetConnection(c, "c1", "slack", environment_id)
    \/ \E c \in Calls : SelectReturned(c)
    \/ \E c \in Calls : EnvironmentNameReturned(c)
    \/ \E c \in Calls : OperationEnds(c)

DeletionSpec == DeletionInit /\ [][DeletionNext]_vars

\* ------------------------------------------------------------------ claims
\* C1: for every connection at most one outbound refresh request is in
\* flight at any instant, however many calls run on it concurrently.
C1_AtMostOneRefreshInFlight ==
    \A p, q \in Calls :
        (InFlight(p) /\ InFlight(q) /\ TripleOf(p) = TripleOf(q)) => p = q

\* C2: runningCredentialsRefreshes never holds two entries of the same
\* (connectionId, providerConfigKey): check-if-pending and
\* register-if-absent are one atomic step.
C2_AtMostOneEntryPerKey ==
    \A i, j \in 1..Len(runningCredentialsRefreshes) :
        (/\ runningCredentialsRefreshes[i].connectionId
              = runningCredentialsRefreshes[j].connectionId
         /\ runningCredentialsRefreshes[i].providerConfigKey
              = runningCredentialsRefreshes[j].providerConfigKey) => i = j

\* C3: the registry never holds an entry whose promise is already settled
\* (resolved or rejected).
C3_NoSettledEntry ==
    \A i \in 1..Len(runningCredentialsRefreshes) :
        promise[runningCredentialsRefreshes[i].promise].state = "pending"

\* C4: a call made for environment E never returns credentials that belong
\* to a connection of another environment.
C4_NoCrossEnvironmentCredentials ==
    \A c \in Calls :
        result[c].kind = "returned" => BelongsTo(result[c].credentials)[3] = args[c].environmentId

\* C5: every call that has returned the promise of a refresh ends with that
\* promise's outcome -- the new credentials that refresh produced, or its
\* error -- and all of them end when the promise settles.
C5_AttachedCallsShareOutcome ==
    \A c \in Calls :
        awaiting[c] # 0 =>
            LET p == awaiting[c]
            IN /\ Finished(c) <=> promise[p].state # "pending"
               /\ promise[p].state = "resolved" =>
                    /\ result[c] = Returned(promise[p].credentials)
                    /\ result[c].credentials.access_token[3] = p
               /\ promise[p].state = "rejected" =>
                    /\ result[c] = Thrown(promise[p].error)
                    /\ result[c].error[2] = p

\* C5 witness: two calls have returned the same promise and both have ended
\* with the new credentials of that refresh.
C5_Witness ==
    \E c, d \in Calls :
        /\ c # d
        /\ awaiting[c] = c /\ awaiting[d] = c
        /\ pc[c] = "done" /\ pc[d] = "done"
        /\ result[c] = result[d]
        /\ result[c].credentials.access_token[3] = c

\* C6: whenever a call is handed refreshed credentials, the row of its
\* connection already holds those credentials.
C6_ReceivedCredentialIsStored ==
    [][\A c \in Calls :
         (Receives(c) /\ result'[c].kind = "returned") =>
             StoredCredentials(TripleOf(c))' = result'[c].credentials]_vars

\* C7: no lockout after a failed refresh: a call that looks up the registry
\* after the failure is not handed the rejected promise, so it never fails
\* at the lookup.
C7_NoLockoutAfterFailure ==
    [][\A c \in Calls : pc[c] = "getProviderConfig" => pc'[c] # "failed"]_vars

\* C8: a failing activity-log write makes no call fail with its error and
\* leaves no promise without an outcome.
C8_AuditFailureIsSwallowed ==
    /\ \A c \in Calls : result[c].kind = "thrown" => result[c].error[1] # "activity_log"
    /\ \A p \in Calls : executor[p] # "dead"

\* C9: every refresh that has started eventually settles its promise, so no
\* caller waits forever.
C9_RefreshEventuallyCompletes ==
    \A p \in Calls : (promise[p].state = "pending") ~> (promise[p].state # "pending")

\* C10: an instant refresh that finds a refresh of its key in flight starts
\* no second outbound refresh.
C10_InstantRefreshJoinsInFlight ==
    [][\A c \in Calls :
         (/\ pc[c] = "getProviderConfig"
          /\ args[c].instantRefresh
          /\ \E p \in Calls : InFlight(p) /\ KeyOf(p) = KeyOf(c))
         => ~InFlight(c)']_vars

\* C11: an OAuth2 connection without expires_at whose provider needs no
\* introspection, in a call without instant refresh that finds no entry of
\* its key in the registry: the call starts no outbound refresh, writes no
\* row and returns the credentials of the connection unchanged, also when
\* they hold a refresh_token.
C11_NoExpiryIsNeverRefreshed ==
    [][\A c \in Calls :
         (/\ GetsProviderConfig(c)
          /\ connection[c].credentials.type = "OAUTH2"
          /\ connection[c].credentials.expires_at = NoDate
          /\ ~shouldIntrospectToken(ProviderOfCall(c))
          /\ ~args[c].instantRefresh
          /\ NotRefreshing(c))
         => StartsNothing(c) /\ ReturnsUnchanged(c)]_vars

\* C11 witness: a call without instant refresh, for a provider without
\* introspection, has returned credentials that hold a refresh_token and no
\* expires_at, and has started no refresh.
C11_Witness ==
    \E c \in Calls :
        /\ pc[c] = "done" /\ awaiting[c] = 0 /\ executor[c] = "none"
        /\ providerConfig[c] = ProviderConfig("slack")
        /\ ~args[c].instantRefresh
        /\ result[c].credentials.type = "OAUTH2"
        /\ result[c].credentials.refresh_token # NoToken
        /\ result[c].credentials.expires_at = NoDate

BufferWheneverDefined(template) ==
    IF "token_expiration_buffer" \in DOMAIN template
    THEN template.token_expiration_buffer
    ELSE DefaultExpirationBuffer

\* C13: credentials with refresh_token and expires_at, no instant refresh,
\* no introspection, no entry of the key in the registry: a refresh is
\* started if and only if now + buffer >= expires_at, the buffer being the
\* template's token_expiration_buffer whenever the template defines one and
\* 900 seconds otherwise.
C13_FreshnessThreshold ==
    [][\A c \in Calls :
         (/\ GetsProviderConfig(c)
          /\ connection[c].credentials.type = "OAUTH2"
          /\ connection[c].credentials.refresh_token # NoToken
          /\ connection[c].credentials.expires_at # NoDate
          /\ ~shouldIntrospectToken(ProviderOfCall(c))
          /\ ~args[c].instantRefresh
          /\ NotRefreshing(c))
         => (InFlight(c)' <=>
               now + BufferWheneverDefined(getTemplate(ProviderOfCall(c)))
                 >= connection[c].credentials.expires_at[2])]_vars

\* C14: a provider that requires introspection, credentials with
\* refresh_token, no instant refresh, no entry of the key found: when
\* introspectedTokenExpired reports true a refresh is started, whether
\* expires_at is absent or far away; when it reports false a refresh is
\* started exactly when expires_at is present and inside the buffer.
C14_IntrospectionOverrides ==
    [][\A c \in Calls, expired \in BOOLEAN :
         (/\ IntrospectedTokenExpired(c, expired)
          /\ connection[c].credentials.refresh_token # NoToken)
         => (InFlight(c)' <=>
               \/ expired
               \/ /\ connection[c].credentials.expires_at # NoDate
                  /\ now + ExpirationBuffer(getTemplate(ProviderOfCall(c)))
                       >= connection[c].credentials.expires_at[2])]_vars

\* C14 witness: without instant refresh, a refresh is in flight for
\* credentials that have no expires_at: the introspection reported the token
\* expired.
C14_Witness ==
    \E c \in Calls :
        /\ InFlight(c)
        /\ providerConfig[c] = ProviderConfig("salesforce")
        /\ ~args[c].instantRefresh
        /\ connection[c].credentials.expires_at = NoDate

\* C15: credentials of type ApiKey, Basic or OAuth1 are never refreshed:
\* the call never enters refreshOauth2CredentialsIfNeeded, starts no outbound
\* refresh, writes no row and returns the stored credentials unchanged.
C15_OnlyOAuth2IsRefreshed ==
    [][\A c \in Calls :
         /\ connection'[c].credentials.type \in {"API_KEY", "BASIC", "OAUTH1"}
              => executor'[c] = "none" /\ awaiting'[c] = 0 /\ promise'[c] = NoPromise
         /\ (GetsProviderConfig(c)
              /\ connection[c].credentials.type \in {"API_KEY", "BASIC", "OAUTH1"})
              => /\ StartsNothing(c)
                 /\ ReturnsUnchanged(c)
                 /\ result'[c].credentials = StoredCredentials(TripleOf(c))']_vars

\* C15 witness: calls have returned an API key, basic credentials and OAuth1
\* credentials.
C15_Witness ==
    \E c, d \in Calls :
        /\ pc[c] = "done" /\ pc[d] = "done"
        /\ providerConfig[c][1] = "config" /\ providerConfig[d][1] = "config"
        /\ result[c].credentials.type \in {"API_KEY", "BASIC", "OAUTH1"}
        /\ result[d].credentials.type = result[c].credentials.type
        /\ c # d

\* C17: a call whose provider configuration cannot be found fails with
\* unknown_provider_config, with or without an activity log; it returns no
\* credentials and starts no refresh.
C17_MissingProviderConfigFails ==
    \A c \in Calls :
        providerConfig[c] = NoProviderConfig =>
            /\ pc[c] = "failed"
            /\ result[c].error[1] = "unknown_provider_config"
            /\ promise[c] = NoPromise

\* Call c of an operation begins in this step.
BeginsOperation(c, op) == pc[c] = "idle" /\ args'[c].op = op

\* The error getConnection has to throw for the keys of a call: the first
\* absent one decides ("" and 0 are absent keys).
MissingKey(operation) ==
    IF operation.connectionId = "" THEN "missing_connection"
    ELSE IF operation.providerConfigKey = "" THEN "missing_provider_config"
    ELSE IF operation.environmentId = 0 THEN "missing_environment"
    ELSE "none"

\* C16: getConnection with an absent scoping key fails with
\* missing_connection, missing_provider_config or missing_environment before
\* the select is issued; with the three keys present it fails with
\* unknown_connection, carrying connectionId, providerConfigKey and the name
\* of the environment and no credentials, when the select finds no row of
\* the triple, and returns the connection (never null) when it finds one.
C16_GetConnectionErrors ==
    [][\A c \in Calls :
         /\ BeginsOperation(c, "getConnection") =>
              IF MissingKey(args'[c]) # "none"
              THEN /\ pc'[c] = "failed"
                   /\ result'[c].error[1] = MissingKey(args'[c])
                   /\ nango_connections' = nango_connections
              ELSE pc'[c] = "select"
         /\ (args[c].op = "getConnection" /\ pc[c] = "select" /\ pc'[c] # "select") =>
              IF SelectRows(nango_connections, TripleOf(c)) = <<>>
              THEN pc'[c] = "getEnvironmentName"
              ELSE /\ pc'[c] = "done"
                   /\ result'[c].kind = "returned"
                   /\ result'[c].credentials = StoredCredentials(TripleOf(c))
                   /\ TripleOfRow(connection'[c]) = TripleOf(c)
         /\ (pc[c] = "getEnvironmentName" /\ pc'[c] # "getEnvironmentName") =>
              /\ pc'[c] = "failed"
              /\ result'[c].error =
                   Error("unknown_connection",
                         [connectionId |-> args[c].connectionId,
                          providerConfigKey |-> args[c].providerConfigKey,
                          environmentName |-> getEnvironmentName(args[c].environmentId)])
              /\ result'[c].credentials = NoCredentials]_vars

\* C16 witness: one getConnection has failed with missing_environment and
\* another, with its three keys, with unknown_connection.
C16_Witness ==
    \E c, d \in Calls :
        /\ args[c].op = "getConnection" /\ args[d].op = "getConnection"
        /\ pc[c] = "failed" /\ result[c].error[1] = "missing_environment"
        /\ pc[d] = "failed" /\ result[d].error[1] = "unknown_connection"
        /\ result[d].error[2].connectionId = "c1"

\* At most one row per (connection_id, provider_config_key, environment_id).
OneRowPerTriple ==
    \A i, j \in 1..Len(nango_connections) :
        TripleOfRow(nango_connections[i]) = TripleOfRow(nango_connections[j]) => i = j

\* C18: whatever upserts, imports, updates and deletes have run, the table
\* holds at most one row per triple; and after an upsert (of upsertConnection,
\* upsertApiConnection or an import) the triple has exactly one row, whose
\* columns are those of that upsert.
C18_OneRowPerTriple ==
    [][/\ OneRowPerTriple'
       /\ \A c \in Calls :
            (\/ BeginsOperation(c, "upsertConnection")
             \/ BeginsOperation(c, "upsertApiConnection")
             \/ BeginsOperation(c, "importOAuthConnection")
             \/ pc[c] = "upsertApiConnection" /\ pc'[c] = "initiate")
            => SelectRows(nango_connections', TripleOf(c)')
                 = <<EncryptConnection(encryption_key, connection'[c])>>]_vars

\* C18 witness: two upserts of one triple with different connection_config
\* have run and the one row of the triple holds the columns of one of them.
C18_Witness ==
    \E c, d \in Calls :
        /\ args[c].op = "upsertConnection" /\ args[d].op = "upsertConnection"
        /\ pc[c] = "done" /\ pc[d] = "done"
        /\ TripleOf(c) = TripleOf(d)
        /\ connection[c].connection_config # connection[d].connection_config
        /\ SelectRows(nango_connections, TripleOf(d))
             = <<EncryptConnection(encryption_key, connection[d])>>

\* C19: importApiAuthConnection never overwrites an existing connection:
\* of two imports of one triple that run at the same time at most one
\* inserts, so when one of them inserts, the table does not hold the row
\* that the other has written.
C19_ImportNeverOverwrites ==
    [][\A c \in Calls :
         (pc[c] = "upsertApiConnection" /\ pc'[c] = "initiate")
         => ~ \E d \in Calls \ {c} :
                /\ args[d].op = "importApiAuthConnection"
                /\ TripleOf(d) = TripleOf(c)
                /\ pc[d] \in {"initiate", "done"}
                /\ SelectRows(nango_connections, TripleOf(c))
                     = <<EncryptConnection(encryption_key, connection[d])>>]_vars

Parses(c, authModes) == args[c].op = "parseRawCredentials" /\ args[c].authMode \in authModes

\* A field is present when the object has it with a value other than the
\* empty string; 0 is a present number.
Present(v) == v # Undefined /\ v # Str("")

\* The expiry the parser has to give: the explicit expires_at, else the
\* clock plus expires_in seconds, else none.
ExpiryResolution(rawCreds, clock) ==
    IF Present(Field(rawCreds, "expires_at"))
    THEN parseTokenExpirationDate(Field(rawCreds, "expires_at"))
    ELSE IF Present(Field(rawCreds, "expires_in"))
    THEN DateAfter(clock, parseInt(Field(rawCreds, "expires_in")))
    ELSE NoDate

\* C21: in OAuth2 mode parseRawCredentials fails with
\* incomplete_raw_credentials when access_token is absent, and otherwise
\* returns OAuth2 credentials whose expires_at is the parsed expires_at of
\* the object when it has one, else the clock plus expires_in seconds when it
\* has expires_in (a number or a decimal string), else undefined.
C21_OAuth2Parsing ==
    \A c \in Calls :
        Parses(c, {"OAUTH2"}) =>
            LET rawCreds == args[c].rawCredentials
            IN IF ~Present(Field(rawCreds, "access_token"))
               THEN /\ pc[c] = "failed"
                    /\ result[c].error[1] = "incomplete_raw_credentials"
               ELSE /\ pc[c] = "done"
                    /\ result[c].credentials.type = "OAUTH2"
                    /\ result[c].credentials.access_token = Field(rawCreds, "access_token")
                    /\ result[c].credentials.expires_at = ExpiryResolution(rawCreds, now)

\* C22: in OAuth1 mode parseRawCredentials fails with
\* incomplete_raw_credentials when oauth_token or oauth_token_secret is
\* missing, and otherwise returns OAuth1 credentials with the two values;
\* the raw field of returned OAuth1 and OAuth2 credentials is the object
\* that was passed.
C22_OAuth1ParsingAndRaw ==
    \A c \in Calls :
        /\ Parses(c, {"OAUTH1"}) =>
              LET rawCreds == args[c].rawCredentials
              IN IF ~Present(Field(rawCreds, "oauth_token"))
                    \/ ~Present(Field(rawCreds, "oauth_token_secret"))
                 THEN /\ pc[c] = "failed"
                      /\ result[c].error[1] = "incomplete_raw_credentials"
                 ELSE /\ pc[c] = "done"
                      /\ result[c].credentials.type = "OAUTH1"
                      /\ result[c].credentials.oauth_token = rawCreds.oauth_token
                      /\ result[c].credentials.oauth_token_secret = rawCreds.oauth_token_secret
        /\ (Parses(c, {"OAUTH1", "OAUTH2"}) /\ pc[c] = "done") =>
              result[c].credentials.raw = args[c].rawCredentials

\* C22 witness: an OAuth1 object with fields the credentials do not take
\* has been parsed, and its raw field holds them.
C22_Witness ==
    \E c \in Calls :
        /\ Parses(c, {"OAUTH1"}) /\ pc[c] = "done"
        /\ result[c].credentials.oauth_token = Str("o1")
        /\ result[c].credentials.oauth_token_secret = Str("s1")
        /\ Field(result[c].credentials.raw, "expires_in") = Str("3600")
        /\ Field(result[c].credentials.raw, "apiKey") = Str("k1")

\* C23: in every auth mode other than OAuth2 and OAuth1 parseRawCredentials
\* throws and returns no credentials, whatever fields the object has; the
\* error carries the object.
C23_OtherModesFail ==
    \A c \in Calls :
        Parses(c, AuthModes \ {"OAUTH1", "OAUTH2"}) =>
            /\ pc[c] = "failed"
            /\ result[c].kind = "thrown"
            /\ result[c].credentials = NoCredentials
            /\ result[c].error = Error("unknown credentials type", args[c].rawCredentials)

\* C23 witness: an object with access_token, oauth_token, oauth_token_secret
\* and apiKey was passed in API_KEY mode and the call has thrown.
C23_Witness ==
    \E c \in Calls :
        /\ Parses(c, {"API_KEY"}) /\ pc[c] = "failed"
        /\ Field(args[c].rawCredentials, "access_token") = Str("a1")
        /\ Field(args[c].rawCredentials, "oauth_token") = Str("o1")
        /\ Field(args[c].rawCredentials, "oauth_token_secret") = Str("s1")
        /\ Field(args[c].rawCredentials, "apiKey") = Str("k1")

\* Call c writes its credentials to a row in this step: an upsert, or an
\* update of a triple that has a row.
WritesCredentials(c) ==
    \/ BeginsOperation(c, "upsertConnection")
    \/ BeginsOperation(c, "upsertApiConnection")
    \/ /\ BeginsOperation(c, "updateConnection")
       /\ SelectRows(nango_connections, TripleOf(c)') # <<>>

DerivedHeader(c, name) ==
    LET client == args[c].client
        config == Defaulted(client, args[c].config)
    IN CASE name = <<"Connection", "Id">> -> config.connectionId
         [] name = <<"Provider", "Config", "Key">> -> config.providerConfigKey
         [] name = <<"Base", "Url", "Override">> -> config.baseUrlOverride
         [] name = <<"Nango", "Is", "Sync">> -> client.isSync
         [] name = <<"Nango", "Is", "Dry", "Run">> -> client.dryRun
         [] name = <<"Nango", "Activity", "Log", "Id">> -> client.activityLogId
         [] name = <<"Retries">> -> IF config.retries = "" THEN "absent" ELSE config.retries
         [] name = <<"Authorization">> -> <<"Bearer", client.secretKey>>

\* C25: in the request of proxy() every custom header key k is sent as
\* Nango-Proxy-k and only so, and each internal header (Connection-Id,
\* Provider-Config-Key, Base-Url-Override, Nango-Is-Sync, Nango-Is-Dry-Run,
\* Nango-Activity-Log-Id, Retries, Authorization) has the value that follows
\* from the configuration and the secret key, whatever custom headers the
\* caller passes.
C25_CustomHeadersArePrefixed ==
    \A c \in Calls :
        (args[c].op = "proxy" /\ pc[c] = "request") =>
            LET headers == result[c].headers
                custom == args[c].config.headers
            IN /\ \A name \in InternalHeaders :
                    IF name \in DOMAIN headers
                    THEN headers[name] = DerivedHeader(c, name)
                    ELSE DerivedHeader(c, name) = "absent"
               /\ \A k \in DOMAIN custom :
                    /\ <<"Nango", "Proxy">> \o k \in DOMAIN headers
                    /\ headers[<<"Nango", "Proxy">> \o k] = custom[k]
               /\ DOMAIN headers \ InternalHeaders
                    = {<<"Nango", "Proxy">> \o k : k \in DOMAIN custom}

\* C25 witness: the caller has passed custom headers named like every
\* internal header and the request has been handed over.
C25_Witness ==
    \E c \in Calls :
        /\ args[c].op = "proxy" /\ pc[c] = "request"
        /\ InternalHeaders \subseteq DOMAIN args[c].config.headers
        /\ args[c].config.retries = "3"
        /\ result[c].headers[<<"Authorization">>] = <<"Bearer", "secret">>
        /\ result[c].headers[<<"Nango", "Proxy", "Authorization">>] = "custom"

\* The registry holds an entry of the refresh of promise p.
Registered(p) ==
    \E i \in 1..Len(runningCredentialsRefreshes) : runningCredentialsRefreshes[i].promise = p

\* The failure of the refresh of promise p is written to the activity log
\* in this step (the writes of lines 503-510 return) and reject(e) follows.
RecordsFailure(p) ==
    executor[p] = "catch createActivityLogMessage" /\ executor'[p] = "settled"

\* C26: a failed refresh whose call has an audit context (activityLogId set,
\* logAction 'token') writes its failure to the activity log when its entry
\* has been removed from the registry and before any call waiting for it is
\* handed the failure; and a call without an audit context writes nothing
\* to the activity log.
C26_FailureAuditOrder ==
    [][\A p \in Calls :
         /\ RecordsFailure(p) =>
              /\ ~Registered(p)
              /\ \A c \in Calls : awaiting[c] = p => ~Finished(c)
              /\ promise[p] = Pending /\ promise'[p].state = "rejected"
         /\ (pc'[p] = "createActivityLogMessage"
             \/ executor'[p] = "catch createActivityLogMessage") => AuditContext(p)']_vars

\* Call c enters refreshOauth2CredentialsIfNeeded in this step.
EntersRefresh(c) ==
    /\ pc[c] = "getProviderConfig" /\ pc'[c] # "getProviderConfig"
    /\ providerConfig'[c][1] = "config"
    /\ connection[c].credentials.type = "OAUTH2"

\* The key refreshes are registered under, of the connection a call holds.
KeyOfConnection(c) == <<connection[c].connection_id, connection[c].provider_config_key>>

\* C27: a call that enters refreshOauth2CredentialsIfNeeded while an entry
\* of its key is registered returns the promise of that entry: it asks for
\* no introspection, evaluates no staleness (it returns no credentials of
\* its own) and starts nothing, also when its credentials are fresh or have
\* no refresh_token; and it ends with the outcome of that promise, so it
\* fails when that refresh fails.
C27_DedupPrecedesStaleness ==
    [][\A c \in Calls :
         /\ (EntersRefresh(c) /\ ~NotRefreshing(c)) =>
              LET p == RunningRefresh(runningCredentialsRefreshes,
                                      connection[c].connection_id,
                                      connection[c].provider_config_key)
              IN /\ awaiting'[c] = p
                 /\ pc'[c] # "introspectedTokenExpired"
                 /\ promise[p].state = "pending" => pc'[c] = "awaitRefresh"
                 /\ promise'[c] = promise[c] /\ executor'[c] = executor[c]
                 /\ runningCredentialsRefreshes' = runningCredentialsRefreshes
                 /\ nango_connections' = nango_connections
         /\ (awaiting'[c] # 0 /\ promise'[awaiting'[c]].state = "rejected") =>
              /\ pc'[c] = "failed"
              /\ result'[c] = Thrown(promise'[awaiting'[c]].error)
         /\ (awaiting'[c] # 0 /\ promise'[awaiting'[c]].state = "resolved") =>
              /\ pc'[c] = "done"
              /\ result'[c] = Returned(promise'[awaiting'[c]].credentials)]_vars

\* C27 witness: a call without instant refresh whose credentials are fresh
\* has joined the instant refresh of another call and has failed with the
\* failure of that refresh.
C27_Witness ==
    \E c, p \in Calls :
        /\ c # p /\ awaiting[c] = p
        /\ args[p].instantRefresh /\ ~args[c].instantRefresh
        /\ connection[c].credentials.refresh_token # NoToken
        /\ connection[c].credentials.expires_at = Date(now + 3600)
        /\ ProviderOfCall(c) = "salesforce"
        /\ promise[p].state = "rejected"
        /\ pc[c] = "failed" /\ result[c] = Thrown(promise[p].error)

\* The entries of the registry that are not of the key.
OtherEntries(refreshes, key) ==
    SelectSeq(refreshes, LAMBDA e : <<e.connectionId, e.providerConfigKey>> # key)

\* C30: no step of the refresh of a key, its completion with success or
\* failure included, changes the entries of another key: whatever it removes
\* is of its own connectionId and providerConfigKey, and a refresh of
\* another key that was registered stays registered; and a call returns the promise of a refresh only when the
\* connectionId and the providerConfigKey of its connection are those of
\* that refresh, and is handed credentials of its own key only.
C30_KeysAreIndependent ==
    [][/\ \A p \in Calls :
            (executor[p] # "none" /\ executor'[p] # executor[p]) =>
                /\ OtherEntries(runningCredentialsRefreshes', KeyOfConnection(p))
                     = OtherEntries(runningCredentialsRefreshes, KeyOfConnection(p))
                /\ \A q \in Calls \ {p} :
                     (Registered(q) /\ KeyOfConnection(q) # KeyOfConnection(p))
                     => Registered(q)'
       /\ \A c \in Calls :
            awaiting'[c] # 0 =>
                /\ connection'[c].connection_id
                     = connection'[awaiting'[c]].connection_id
                /\ connection'[c].provider_config_key
                     = connection'[awaiting'[c]].provider_config_key
                /\ result'[c].kind = "returned" =>
                     <<BelongsTo(result'[c].credentials)[1],
                       BelongsTo(result'[c].credentials)[2]>> = KeyOfConnection(c)']_vars

\* C30 witness: refreshes of c1 and of c2 under slack were registered, one
\* has completed and its entry is gone, the entry of the other is still
\* there and its call still waits.
C30_Witness ==
    \E p, q \in Calls :
        /\ KeyOfConnection(p) = <<"c2", "slack">> /\ KeyOfConnection(q) = <<"c1", "slack">>
        /\ promise[p].state \in {"resolved", "rejected"} /\ ~Registered(p)
        /\ promise[q].state = "pending" /\ Registered(q)
        /\ pc[q] = "awaitRefresh" /\ Finished(p)

\* The errors of the outbound refresh call and of the parsing of its response.
OutboundFailures == {"refresh_failed", "incomplete_raw_credentials"}

\* Refresh p has failed at the outbound call or at the parsing.
FailedOutbound(p) ==
    \/ promise[p].state = "rejected" /\ promise[p].error[1] \in OutboundFailures
    \/ /\ executor[p] \in {"catch createActivityLogMessage", "dead"}
       /\ caught[p][1] \in OutboundFailures

\* Neither the connection object of p nor a stored row holds credentials
\* that refresh p has obtained.
HoldsNothingOf(p) ==
    /\ connection[p].credentials.access_token[3] # p
    /\ \A i \in 1..Len(nango_connections) :
         DecryptCredentials(encryption_key, nango_connections[i]).access_token[3] # p

\* C29: the steps in which a refresh fails at the outbound call or at the
\* parsing of the response, and in which that failure is reported, write
\* nothing to the store and leave the connection object of the refresh as
\* it was; once such a refresh has failed, its connection object holds the
\* credentials it was called with and no stored row holds credentials of
\* that refresh.
C29_FailedRefreshWritesNothing ==
    [][\A p \in Calls :
         /\ (~FailedOutbound(p) /\ FailedOutbound(p)') =>
              /\ executor[p] = "outbound"
              /\ nango_connections' = nango_connections
              /\ connection'[p] = connection[p]
         /\ (FailedOutbound(p) /\ executor'[p] # executor[p]) =>
              /\ nango_connections' = nango_connections
              /\ connection'[p] = connection[p]
         /\ FailedOutbound(p)' => HoldsNothingOf(p)']_vars

\* C29 witness: one refresh has been rejected for the failure of the
\* outbound call and another for a response without access token; each
\* call still holds the credentials the store was created with, and the
\* rows of both are as they were stored.
C29_Witness ==
    \E p, q \in Calls :
        /\ promise[p].state = "rejected" /\ promise[p].error = Error("refresh_failed", p)
        /\ promise[q].state = "rejected"
        /\ promise[q].error = Error("incomplete_raw_credentials", q)
        /\ \A c \in {p, q} :
             LET triple == Triple(connection[c].connection_id,
                                  connection[c].provider_config_key,
                                  connection[c].environment_id)
             IN /\ connection[c].credentials = ShapedCredentials(triple, "expired", now)
                /\ StoredCredentials(triple) = ShapedCredentials(triple, "expired", now)

\* The triple of the connection object call c holds.
TripleOfConnection(c) ==
    Triple(connection[c].connection_id, connection[c].provider_config_key,
           connection[c].environment_id)

\* The rows of the table whose triple is not the given one.
RowsOfOthers(table, triple) == SelectSeq(table, LAMBDA row : TripleOfRow(row) # triple)

\* C28: the update of a refresh changes the rows of the triple of its
\* connection and nothing else, and adds no row: when the row has been
\* deleted the table stays as it is.  No step brings back the row of a
\* triple that has none, the delete statement leaves the rows of the other
\* triples as they are, and a getConnection whose select finds no row
\* fails with unknown_connection.
C28_DeletedConnectionStaysDeleted ==
    [][/\ \A p \in Calls :
            (executor[p] = "updateConnection" /\ executor'[p] = "updated") =>
                /\ Len(nango_connections') = Len(nango_connections)
                /\ RowsOfOthers(nango_connections', TripleOfConnection(p))
                     = RowsOfOthers(nango_connections, TripleOfConnection(p))
                /\ SelectRows(nango_connections, TripleOfConnection(p)) = <<>>
                     => nango_connections' = nango_connections
       /\ \A triple \in Triples :
            SelectRows(nango_connections, triple) = <<>>
            => SelectRows(nango_connections', triple) = <<>>
       /\ \A c \in Calls :
            /\ (pc[c] = "del" /\ pc'[c] # "del") =>
                 /\ SelectRows(nango_connections', TripleOf(c)) = <<>>
                 /\ RowsOfOthers(nango_connections', TripleOf(c))
                      = RowsOfOthers(nango_connections, TripleOf(c))
            /\ (pc[c] = "select" /\ pc'[c] # "select"
                /\ SelectRows(nango_connections, TripleOf(c)) = <<>>) =>
                 pc'[c] = "getEnvironmentName"
            /\ (pc[c] = "getEnvironmentName" /\ pc'[c] # "getEnvironmentName") =>
                 /\ pc'[c] = "failed"
                 /\ result'[c].kind = "thrown"
                 /\ result'[c].error[1] = "unknown_connection"]_vars

\* C28 witness: a refresh has resolved with new credentials, the row of its
\* connection is gone, a getConnection of that triple has failed with
\* unknown_connection, and the row of environment 2 is as it was stored.
C28_Witness ==
    \E p, c \in Calls :
        /\ promise[p].state = "resolved" /\ executor[p] = "settled"
        /\ promise[p].credentials.access_token = AccessToken(TripleOfConnection(p), p)
        /\ SelectRows(nango_connections, TripleOfConnection(p)) = <<>>
        /\ IsOperation(c) /\ args[c].op = "getConnection"
        /\ TripleOf(c) = TripleOfConnection(p)
        /\ pc[c] = "failed" /\ result[c].error[1] = "unknown_connection"
        /\ nango_connections = <<EncryptConnection(encryption_key, OtherConnection)>>

====
